---- MODULE Spec2Model ----
(***************************************************************************)
(* Studiums-Dashboard: the domain model (models.py), the SQLite            *)
(* persistence layer (database.py) and the console handlers that drive     *)
(* them (ui.py).                                                           *)
(*                                                                         *)
(* Grades are kept in tenths (1.0 -> 10, 4.0 -> 40, 5.0 -> 50), so the     *)
(* comparisons of the code are integer comparisons.  Python's None and     *)
(* SQLite's NULL are the value NONE; row ids start at 1.                   *)
(***************************************************************************)
EXTENDS Integers, Sequences, FiniteSets, TLC

VARIABLES
    studiengaenge,   \* BenutzerMenue.studiengaenge: the in-memory Studiengang objects
    aktueller,       \* BenutzerMenue.aktueller_studiengang: index into studiengaenge, NONE if None
    zeiteintraege,   \* BenutzerMenue.zeiteintraege: the in-memory ZeitEintrag objects
    db,              \* the SQLite database: one set of rows per table, and sqlite_sequence
    letzte           \* the handler or call that ran last and how it ended

vars == <<studiengaenge, aktueller, zeiteintraege, db, letzte>>

NONE == -1    \* None in Python, NULL in SQLite

----------------------------------------------------------------------------
(* Bounds of the model. *)

MaxSgId == 2       \* Spec: rows ever inserted into studiengaenge
MaxSemId == 6      \* Spec: rows ever inserted into semester
MaxModId == 1      \* Spec: rows ever inserted into module
MaxPlId == 4       \* Spec: rows ever inserted into pruefungsleistungen
MaxRegel == 3      \* SpecSemester: largest regelstudienzeit

----------------------------------------------------------------------------
(* Program constants. *)

NoteMin == 10            \* models.py:62   1.0
NoteMax == 50            \* models.py:62   5.0
Bestehensgrenze == 40    \* models.py:68   4.0
MaxVersuche == 3         \* models.py:107
SemesterMonate == 6      \* models.py:332
StandardZielschnitt == 20    \* models.py:307  2.0

OFFEN == "OFFEN"
BESTANDEN == "BESTANDEN"
NICHT_BESTANDEN == "NICHT_BESTANDEN"

FehlerNote == "Note muss zwischen 1.0 und 5.0 liegen."
FehlerVersuche == "Maximal 3 Versuche erlaubt."
FehlerDatum == "day is out of range for month"
FehlerFremdschluessel == "FOREIGN KEY constraint failed"

----------------------------------------------------------------------------
(* Sequences and sets. *)

Letztes(s) == s[Len(s)]

\* sum(f) for a list f of n numbers
RECURSIVE Summe(_, _)
Summe(f, n) == IF n = 0 THEN 0 ELSE f[n] + Summe(f, n - 1)

\* list.remove(x) for the element at position i (the objects of a list are distinct)
OhneIndex(s, i) == [k \in 1..(Len(s) - 1) |-> IF k < i THEN s[k] ELSE s[k + 1]]

RECURSIVE Permutationen(_)
Permutationen(S) ==
    IF S = {} THEN {<<>>}
    ELSE UNION {{<<x>> \o p : p \in Permutationen(S \ {x})} : x \in S}

\* the row orders an ORDER BY on Schluessel may return: ties are in no stated order
Sortierungen(S, Schluessel(_)) ==
    {p \in Permutationen(S) :
        \A i \in 1..(Len(p) - 1) : Schluessel(p[i]) <= Schluessel(p[i + 1])}

\* the order of a table scan without ORDER BY: SQLite walks the rowid b-tree
RECURSIVE NachId(_)
NachId(S) ==
    IF S = {} THEN <<>>
    ELSE LET r == CHOOSE x \in S : \A y \in S : x.id <= y.id
         IN <<r>> \o NachId(S \ {r})

----------------------------------------------------------------------------
(* Calendar dates (datetime at midnight). *)

Datum(j, m, t) == [jahr |-> j, monat |-> m, tag |-> t]

Schaltjahr(j) == (j % 4 = 0 /\ j % 100 # 0) \/ j % 400 = 0

TageImMonat(j, m) ==
    IF m = 2 THEN (IF Schaltjahr(j) THEN 29 ELSE 28)
    ELSE IF m \in {4, 6, 9, 11} THEN 30 ELSE 31

DatumGueltig(d) ==
    d.monat \in 1..12 /\ d.tag >= 1 /\ d.tag <= TageImMonat(d.jahr, d.monat)

\* d - timedelta(days=1)
Vortag(d) ==
    IF d.tag > 1 THEN Datum(d.jahr, d.monat, d.tag - 1)
    ELSE IF d.monat > 1
         THEN Datum(d.jahr, d.monat - 1, TageImMonat(d.jahr, d.monat - 1))
         ELSE Datum(d.jahr - 1, 12, 31)

\* d + timedelta(days=1)
Folgetag(d) ==
    IF d.tag < TageImMonat(d.jahr, d.monat) THEN Datum(d.jahr, d.monat, d.tag + 1)
    ELSE IF d.monat < 12 THEN Datum(d.jahr, d.monat + 1, 1)
    ELSE Datum(d.jahr + 1, 1, 1)

\* d + timedelta(days=n)
RECURSIVE DatumPlusTage(_, _)
DatumPlusTage(d, n) ==
    IF n = 0 THEN d
    ELSE IF n > 0 THEN DatumPlusTage(Folgetag(d), n - 1)
    ELSE DatumPlusTage(Vortag(d), n + 1)

\* date.toordinal(): the number of the day, counted from 0001-01-01 = 1
RECURSIVE TageVorMonat(_, _)
TageVorMonat(j, m) ==
    IF m <= 1 THEN 0 ELSE TageVorMonat(j, m - 1) + TageImMonat(j, m - 1)

TagNummer(d) ==
    LET v == d.jahr - 1
    IN v * 365 + (v \div 4) - (v \div 100) + (v \div 400)
       + TageVorMonat(d.jahr, d.monat) + d.tag

\* datetime(jahr, monat, tag, hour, minute, second), the hour and minute as
\* minutes since midnight; microseconds are left out
ZeitpunktMitSekunde(datum, minute, sekunde) ==
    [datum |-> datum, minute |-> minute, sekunde |-> sekunde]

\* a datetime with a time of day that was read as HH:MM:
\* datetime.combine(datum.date(), zeit.time()), the time of day in minutes since
\* midnight
Zeitpunkt(datum, minute) == ZeitpunktMitSekunde(datum, minute, 0)

\* z + timedelta(minutes=minuten)
ZeitPlusMinuten(z, minuten) ==
    LET gesamt == z.minute + minuten
    IN ZeitpunktMitSekunde(DatumPlusTage(z.datum, gesamt \div 1440), gesamt % 1440,
                           z.sekunde)

\* no datetime, no text (an attribute the object does not have, a NULL column)
KEINE_ZEIT == <<>>
KEIN_TEXT == "NULL"

\* datetime.isoformat() of a Zeitpunkt: date and time of day as sortable text,
\* here the pair <<YYYYMMDD, HHMMSS>>
IsoformatZeit(z) ==
    <<z.datum.jahr * 10000 + z.datum.monat * 100 + z.datum.tag,
      (z.minute \div 60) * 10000 + (z.minute % 60) * 100 + z.sekunde>>

\* datetime.fromisoformat() of such a text
FromIsoformatZeit(t) ==
    ZeitpunktMitSekunde([jahr |-> t[1] \div 10000, monat |-> (t[1] \div 100) % 100,
                         tag |-> (t[1] % 100)],
                        (t[2] \div 10000) * 60 + ((t[2] \div 100) % 100),
                        t[2] % 100)

\* datetime.isoformat(): year, month, day as sortable text, here as digits YYYYMMDD
Isoformat(d) == d.jahr * 10000 + d.monat * 100 + d.tag

\* datetime.fromisoformat()
FromIsoformat(n) == Datum(n \div 10000, (n \div 100) % 100, n % 100)

----------------------------------------------------------------------------
(* models.py: Pruefungsleistung and Modul. *)

\* the range test of the note setter
\* faulty variant of NoteGueltig: the upper end of the range is not tested
NoteGueltigOhneObergrenze(wert) == NoteMin <= wert

NoteGueltig(wert) == NoteMin <= wert /\ wert <= NoteMax

\* Pruefungsleistung(note, versuchs_nummer); the caller has checked NoteGueltig
Pruefungsleistung(note, versuchs_nummer) ==
    [note |-> note, versuchs_nummer |-> versuchs_nummer, id |-> NONE]

\* faulty variant of ist_bestanden: a 4.0 does not pass
PlIstBestandenUnterGrenze(pl) == pl.note < Bestehensgrenze

PlIstBestanden(pl) == pl.note <= Bestehensgrenze

\* Modul(titel, ects, status, geplantes_semester)
Modul(titel, ects, status, geplantes_semester) ==
    [titel |-> titel, ects |-> ects, status |-> status,
     geplantes_semester |-> geplantes_semester,
     pruefungsleistungen |-> <<>>, id |-> NONE]

\* the status aktualisiere_status assigns, from the list of Pruefungsleistungen
BerechneStatus(pls) ==
    IF pls = <<>> THEN OFFEN
    ELSE IF PlIstBestanden(Letztes(pls)) THEN BESTANDEN
    ELSE IF Len(pls) >= MaxVersuche THEN NICHT_BESTANDEN
    ELSE OFFEN

AktualisiereStatus(modul) ==
    [modul EXCEPT !.status = BerechneStatus(modul.pruefungsleistungen)]

\* faulty variant of neue_pruefungsleistung: the limit is tested with > instead
\* of >=, so a fourth Pruefungsleistung is accepted
NeuePruefungsleistungEinsZuviel(modul, note) ==
    IF Len(modul.pruefungsleistungen) > MaxVersuche
    THEN [fehler |-> FehlerVersuche, modul |-> modul]
    ELSE IF ~(NoteMin <= note /\ note <= NoteMax)
    THEN [fehler |-> FehlerNote, modul |-> modul]
    ELSE [fehler |-> "",
          modul |-> [modul EXCEPT
              !.pruefungsleistungen = Append(@, [note |-> note,
                                                 versuchs_nummer |-> Len(@) + 1,
                                                 id |-> NONE]),
              !.status = IF note <= Bestehensgrenze THEN BESTANDEN
                         ELSE IF Len(modul.pruefungsleistungen) + 1 >= MaxVersuche
                         THEN NICHT_BESTANDEN ELSE OFFEN]]

\* Modul.neue_pruefungsleistung(note): the error raised ("" for none) and the
\* Modul afterwards
NeuePruefungsleistung(modul, note) ==
    IF Len(modul.pruefungsleistungen) >= MaxVersuche
    THEN [fehler |-> FehlerVersuche, modul |-> modul]
    ELSE IF ~NoteGueltig(note)
    THEN [fehler |-> FehlerNote, modul |-> modul]
    ELSE [fehler |-> "",
          modul |-> AktualisiereStatus(
              [modul EXCEPT !.pruefungsleistungen =
                  Append(@, Pruefungsleistung(note, Len(@) + 1))])]

\* pl.note = wert on the i-th Pruefungsleistung of the Modul
SetzeNote(modul, i, wert) ==
    IF ~NoteGueltig(wert)
    THEN [fehler |-> FehlerNote, modul |-> modul]
    ELSE [fehler |-> "",
          modul |-> [modul EXCEPT !.pruefungsleistungen[i].note = wert]]

ModulIstBestanden(modul) == modul.status = BESTANDEN

----------------------------------------------------------------------------
(* models.py: Semester and Studiengang. *)

Semester(nummer, start_datum, end_datum) ==
    [nummer |-> nummer, start_datum |-> start_datum, end_datum |-> end_datum,
     id |-> NONE]

Studiengang(name, regelstudienzeit, zielschnitt) ==
    [name |-> name, regelstudienzeit |-> regelstudienzeit,
     zielschnitt |-> zielschnitt, semester_liste |-> <<>>, module |-> <<>>,
     id |-> NONE]

\* round(sum(noten) / len(noten), 2) in hundredths, for noten in tenths: the
\* nearest hundredth. Python rounds the binary float, so a quotient halfway
\* between two hundredths may go either way; that needs at least four noten,
\* and here it goes to the even one.
Runde2(noten) ==
    LET zaehler == Summe(noten, Len(noten)) * 10
        n == Len(noten)
        unten == zaehler \div n
        rest == zaehler % n
    IN IF 2 * rest < n THEN unten
       ELSE IF 2 * rest > n THEN unten + 1
       ELSE IF unten % 2 = 0 THEN unten ELSE unten + 1

\* the list noten both averages collect from the modules that pass gewaehlt
LetzteNoten(module, gewaehlt(_)) ==
    LET treffer == SelectSeq(module, LAMBDA m : gewaehlt(m) /\ m.pruefungsleistungen # <<>>)
    IN [k \in 1..Len(treffer) |-> Letztes(treffer[k].pruefungsleistungen).note]

\* Semester.berechne_notendurchschnitt(module), in hundredths (0.0 is 0)
BerechneNotendurchschnitt(semester, module) ==
    LET noten == LetzteNoten(module,
                     LAMBDA m : m.geplantes_semester = semester.nummer
                                /\ ModulIstBestanden(m))
    IN IF noten = <<>> THEN 0 ELSE Runde2(noten)

\* Studiengang.berechne_durchschnitt(), in hundredths (0.0 is 0)
BerechneDurchschnitt(studiengang) ==
    LET noten == LetzteNoten(studiengang.module, ModulIstBestanden)
    IN IF noten = <<>> THEN 0 ELSE Runde2(noten)

\* a <= b for two datetimes
ZeitHoechstens(a, b) ==
    \/ Isoformat(a.datum) < Isoformat(b.datum)
    \/ (a.datum = b.datum /\ a.minute < b.minute)
    \/ (a.datum = b.datum /\ a.minute = b.minute /\ a.sekunde <= b.sekunde)

\* faulty variant of ist_aktuell: the end of the semester is not part of it
SemesterIstAktuellOhneEnde(sem, jetzt) ==
    /\ ZeitHoechstens(Zeitpunkt(sem.start_datum, 0), jetzt)
    /\ ~ZeitHoechstens(Zeitpunkt(sem.end_datum, 0), jetzt)

\* Semester.ist_aktuell() when datetime.now() is jetzt; start_datum and end_datum
\* are datetimes at midnight
SemesterIstAktuell(sem, jetzt) ==
    /\ ZeitHoechstens(Zeitpunkt(sem.start_datum, 0), jetzt)
    /\ ZeitHoechstens(jetzt, Zeitpunkt(sem.end_datum, 0))

\* the loop of get_aktuelles_semester from position k: the nummer of the first
\* semester that is current, NONE if the loop ends without one
RECURSIVE ErstesAktuellesAb(_, _, _)
ErstesAktuellesAb(liste, k, jetzt) ==
    IF k > Len(liste) THEN NONE
    ELSE IF SemesterIstAktuell(liste[k], jetzt) THEN liste[k].nummer
    ELSE ErstesAktuellesAb(liste, k + 1, jetzt)

\* Studiengang.get_aktuelles_semester() when datetime.now() is jetzt
GetAktuellesSemester(studiengang, jetzt) ==
    LET liste == studiengang.semester_liste
        gefunden == ErstesAktuellesAb(liste, 1, jetzt)
    IN IF gefunden # NONE THEN gefunden
       ELSE IF liste # <<>>
               /\ ~ZeitHoechstens(Zeitpunkt(liste[1].start_datum, 0), jetzt)
       THEN 1
       ELSE studiengang.regelstudienzeit

\* while monat > 12: monat = monat - 12; jahr = jahr + 1
RECURSIVE Jahresueberlauf(_, _)
Jahresueberlauf(monat, jahr) ==
    IF monat > 12 THEN Jahresueberlauf(monat - 12, jahr + 1)
    ELSE [monat |-> monat, jahr |-> jahr]

\* aktueller_start.replace(year=jahr, month=monat): the day is kept as it is
NaechsterStart(aktueller_start) ==
    LET u == Jahresueberlauf(aktueller_start.monat + SemesterMonate,
                             aktueller_start.jahr)
    IN Datum(u.jahr, u.monat, aktueller_start.tag)

\* the loop body of generiere_semester for i, i+1, .. regelstudienzeit: replace()
\* raises ValueError when the day does not exist in the new month
RECURSIVE SemesterAb(_, _, _)
SemesterAb(i, regelstudienzeit, aktueller_start) ==
    IF i > regelstudienzeit THEN [fehler |-> "", liste |-> <<>>]
    ELSE LET naechster_start == NaechsterStart(aktueller_start)
         IN IF ~DatumGueltig(naechster_start)
            THEN [fehler |-> FehlerDatum, liste |-> <<>>]
            ELSE LET rest == SemesterAb(i + 1, regelstudienzeit, naechster_start)
                 IN [fehler |-> rest.fehler,
                     liste |-> <<Semester(i, aktueller_start,
                                          Vortag(naechster_start))>> \o rest.liste]

\* Studiengang.generiere_semester(start_datum): the error raised and the
\* semester_liste built up to then
GeneriereSemester(regelstudienzeit, start_datum) ==
    SemesterAb(1, regelstudienzeit, start_datum)

----------------------------------------------------------------------------
(* database.py: the tables of _tabellen_erstellen.  Every table has an      *)
(* INTEGER PRIMARY KEY AUTOINCREMENT: a new row gets the largest id ever     *)
(* used in the table plus one (db.seq), so ids are never reused.             *)

Tabellen == {"studiengaenge", "semester", "module", "pruefungsleistungen",
             "zeiteintraege"}

LeereDb ==
    [studiengaenge |-> {}, semester |-> {}, module |-> {},
     pruefungsleistungen |-> {}, zeiteintraege |-> {},
     seq |-> [t \in Tabellen |-> 0]]

Ids(zeilen) == {z.id : z \in zeilen}

\* faulty variant of the module foreign keys: pruefungsleistungen.modul_id
\* without ON DELETE CASCADE checking switched on, so the rows stay
ModulZeilenLoeschenOhneKaskade(d, ids) ==
    [d EXCEPT
        !.module = {z \in @ : z.id \notin ids},
        !.zeiteintraege =
            {IF z.modul_id \in ids THEN [z EXCEPT !.modul_id = NONE] ELSE z : z \in @}]

\* faulty variant of the module foreign keys: zeiteintraege.modul_id declared
\* ON DELETE CASCADE instead of ON DELETE SET NULL
ModulZeilenLoeschenMitEintraegen(d, ids) ==
    [d EXCEPT
        !.module = {z \in @ : z.id \notin ids},
        !.pruefungsleistungen = {z \in @ : z.modul_id \notin ids},
        !.zeiteintraege = {z \in @ : z.modul_id \notin ids}]

\* what deleting the module rows `ids` does to the tables that reference module:
\* pruefungsleistungen.modul_id ON DELETE CASCADE, zeiteintraege.modul_id ON
\* DELETE SET NULL
ModulZeilenLoeschen(d, ids) ==
    [d EXCEPT
        !.module = {z \in @ : z.id \notin ids},
        !.pruefungsleistungen = {z \in @ : z.modul_id \notin ids},
        !.zeiteintraege =
            {IF z.modul_id \in ids THEN [z EXCEPT !.modul_id = NONE] ELSE z : z \in @}]

\* what deleting the studiengaenge rows `ids` does: semester.studiengang_id and
\* module.studiengang_id are ON DELETE CASCADE
StudiengangZeilenLoeschen(d, ids) ==
    LET module_ids == {z.id : z \in {m \in d.module : m.studiengang_id \in ids}}
        d1 == ModulZeilenLoeschen(d, module_ids)
    IN [d1 EXCEPT
           !.studiengaenge = {z \in @ : z.id \notin ids},
           !.semester = {z \in @ : z.studiengang_id \notin ids}]

\* StudiengangRepository.loeschen(sg_id)
StudiengangRepoLoeschen(d, sg_id) == StudiengangZeilenLoeschen(d, {sg_id})

\* ModulRepository.loeschen(modul_id)
ModulRepoLoeschen(d, modul_id) == ModulZeilenLoeschen(d, {modul_id})

\* ModulRepository.loeschen_pruefungsleistung(pl_id)
LoeschenPruefungsleistung(d, pl_id) ==
    [d EXCEPT !.pruefungsleistungen = {z \in @ : z.id # pl_id}]

\* ZeiteintragRepository.loeschen(eintrag_id)
ZeiteintragRepoLoeschen(d, eintrag_id) ==
    [d EXCEPT !.zeiteintraege = {z \in @ : z.id # eintrag_id}]

SemesterZeile(sem, id, studiengang_id) ==
    [id |-> id, nummer |-> sem.nummer,
     start_datum |-> Isoformat(sem.start_datum),
     end_datum |-> Isoformat(sem.end_datum),
     studiengang_id |-> studiengang_id]

\* faulty variant of StudiengangRepository.speichern: the stored semesters of
\* the Studiengang are not deleted before its list is inserted
StudiengangRepoSpeichernOhneDelete(d, studiengang) ==
    LET neu == studiengang.id = NONE
        sg_id == IF neu THEN d.seq.studiengaenge + 1 ELSE studiengang.id
        zeile == [id |-> sg_id, name |-> studiengang.name,
                  regelstudienzeit |-> studiengang.regelstudienzeit,
                  zielschnitt |-> studiengang.zielschnitt]
        d1 == IF neu
              THEN [d EXCEPT !.studiengaenge = @ \cup {zeile},
                             !.seq.studiengaenge = sg_id]
              ELSE [d EXCEPT !.studiengaenge =
                        {IF z.id = sg_id THEN zeile ELSE z : z \in @}]
        n == Len(studiengang.semester_liste)
        basis == d1.seq.semester
        d2 == [d1 EXCEPT
                  !.semester = @ \cup
                      {SemesterZeile(studiengang.semester_liste[k], basis + k, sg_id)
                          : k \in 1..n},
                  !.seq.semester = basis + n]
    IN IF n > 0 /\ sg_id \notin Ids(d1.studiengaenge)
       THEN [fehler |-> FehlerFremdschluessel, db |-> d, studiengang |-> studiengang]
       ELSE [fehler |-> "", db |-> d2,
             studiengang |->
                 [studiengang EXCEPT
                     !.id = sg_id,
                     !.semester_liste =
                         [k \in 1..n |-> [@[k] EXCEPT !.id = basis + k]]]]

\* StudiengangRepository.speichern(studiengang): the error raised, the database
\* and the Studiengang object afterwards.  An UPDATE or DELETE that matches no row
\* changes nothing; an INSERT into semester whose studiengang_id matches no row
\* violates the foreign key, and nothing of the call is committed.
StudiengangRepoSpeichern(d, studiengang) ==
    LET neu == studiengang.id = NONE
        sg_id == IF neu THEN d.seq.studiengaenge + 1 ELSE studiengang.id
        zeile == [id |-> sg_id, name |-> studiengang.name,
                  regelstudienzeit |-> studiengang.regelstudienzeit,
                  zielschnitt |-> studiengang.zielschnitt]
        d1 == IF neu
              THEN [d EXCEPT !.studiengaenge = @ \cup {zeile},
                             !.seq.studiengaenge = sg_id]
              ELSE [d EXCEPT !.studiengaenge =
                        {IF z.id = sg_id THEN zeile ELSE z : z \in @}]
        n == Len(studiengang.semester_liste)
        basis == d1.seq.semester
        d2 == [d1 EXCEPT
                  !.semester = {z \in @ : z.studiengang_id # sg_id} \cup
                      {SemesterZeile(studiengang.semester_liste[k], basis + k, sg_id)
                          : k \in 1..n},
                  !.seq.semester = basis + n]
    IN IF n > 0 /\ sg_id \notin Ids(d1.studiengaenge)
       THEN [fehler |-> FehlerFremdschluessel, db |-> d, studiengang |-> studiengang]
       ELSE [fehler |-> "", db |-> d2,
             studiengang |->
                 [studiengang EXCEPT
                     !.id = sg_id,
                     !.semester_liste =
                         [k \in 1..n |-> [@[k] EXCEPT !.id = basis + k]]]]

\* faulty variant of the test `if pl.id is None`: every Pruefungsleistung of
\* the list is inserted, whether it has an id or not
AllePositionen(pls) == 1..Len(pls)

\* the positions of the Pruefungsleistungen without id, in list order
NeuePositionen(pls) == {k \in 1..Len(pls) : pls[k].id = NONE}

\* how many of the first k Pruefungsleistungen have no id
AnzahlNeueBis(pls, k) == Cardinality({j \in NeuePositionen(pls) : j <= k})

\* faulty variant of ModulRepository.speichern: the rows of the
\* Pruefungsleistungen that have an id are updated from the objects
ModulRepoSpeichernMitUpdate(d, modul, studiengang_id) ==
    LET neu == modul.id = NONE
        modul_id == IF neu THEN d.seq.module + 1 ELSE modul.id
        d1 == IF neu
              THEN [d EXCEPT
                       !.module = @ \cup
                           {[id |-> modul_id, titel |-> modul.titel,
                             ects |-> modul.ects, status |-> modul.status,
                             geplantes_semester |-> modul.geplantes_semester,
                             studiengang_id |-> studiengang_id]},
                       !.seq.module = modul_id]
              ELSE [d EXCEPT !.module =
                       {IF z.id = modul_id
                        THEN [z EXCEPT !.titel = modul.titel, !.ects = modul.ects,
                                       !.status = modul.status,
                                       !.geplantes_semester = modul.geplantes_semester]
                        ELSE z : z \in @}]
        pls == modul.pruefungsleistungen
        basis == d1.seq.pruefungsleistungen
        NeueId(k) == basis + AnzahlNeueBis(pls, k)
        d2 == [d1 EXCEPT
                  !.pruefungsleistungen =
                      {IF \E k \in 1..Len(pls) : pls[k].id = z.id
                       THEN LET k == CHOOSE k \in 1..Len(pls) : pls[k].id = z.id
                            IN [z EXCEPT !.note = pls[k].note,
                                         !.versuchs_nummer = pls[k].versuchs_nummer]
                       ELSE z : z \in @} \cup
                      {[id |-> NeueId(k), note |-> pls[k].note,
                        versuchs_nummer |-> pls[k].versuchs_nummer,
                        modul_id |-> modul_id] : k \in NeuePositionen(pls)},
                  !.seq.pruefungsleistungen = basis + Cardinality(NeuePositionen(pls))]
    IN IF neu /\ studiengang_id \notin Ids(d.studiengaenge)
       THEN [fehler |-> FehlerFremdschluessel, db |-> d, modul |-> modul]
       ELSE IF NeuePositionen(pls) # {} /\ modul_id \notin Ids(d1.module)
       THEN [fehler |-> FehlerFremdschluessel, db |-> d, modul |-> modul]
       ELSE [fehler |-> "", db |-> d2,
             modul |-> [modul EXCEPT
                 !.id = modul_id,
                 !.pruefungsleistungen =
                     [k \in 1..Len(pls) |->
                         IF pls[k].id = NONE THEN [pls[k] EXCEPT !.id = NeueId(k)]
                         ELSE pls[k]]]]

\* ModulRepository.speichern(modul, studiengang_id): the error raised, the
\* database and the Modul object afterwards.  Pruefungsleistungen that have an id
\* are skipped.
ModulRepoSpeichern(d, modul, studiengang_id) ==
    LET neu == modul.id = NONE
        modul_id == IF neu THEN d.seq.module + 1 ELSE modul.id
        d1 == IF neu
              THEN [d EXCEPT
                       !.module = @ \cup
                           {[id |-> modul_id, titel |-> modul.titel,
                             ects |-> modul.ects, status |-> modul.status,
                             geplantes_semester |-> modul.geplantes_semester,
                             studiengang_id |-> studiengang_id]},
                       !.seq.module = modul_id]
              ELSE [d EXCEPT !.module =
                       {IF z.id = modul_id
                        THEN [z EXCEPT !.titel = modul.titel, !.ects = modul.ects,
                                       !.status = modul.status,
                                       !.geplantes_semester = modul.geplantes_semester]
                        ELSE z : z \in @}]
        pls == modul.pruefungsleistungen
        basis == d1.seq.pruefungsleistungen
        NeueId(k) == basis + AnzahlNeueBis(pls, k)
        d2 == [d1 EXCEPT
                  !.pruefungsleistungen = @ \cup
                      {[id |-> NeueId(k), note |-> pls[k].note,
                        versuchs_nummer |-> pls[k].versuchs_nummer,
                        modul_id |-> modul_id] : k \in NeuePositionen(pls)},
                  !.seq.pruefungsleistungen = basis + Cardinality(NeuePositionen(pls))]
    IN IF neu /\ studiengang_id \notin Ids(d.studiengaenge)
       THEN [fehler |-> FehlerFremdschluessel, db |-> d, modul |-> modul]
       ELSE IF NeuePositionen(pls) # {} /\ modul_id \notin Ids(d1.module)
       THEN [fehler |-> FehlerFremdschluessel, db |-> d, modul |-> modul]
       ELSE [fehler |-> "", db |-> d2,
             modul |-> [modul EXCEPT
                 !.id = modul_id,
                 !.pruefungsleistungen =
                     [k \in 1..Len(pls) |->
                         IF pls[k].id = NONE THEN [pls[k] EXCEPT !.id = NeueId(k)]
                         ELSE pls[k]]]]

\* the loop of DatenbankManager.speichern over studiengang.module from position k:
\* every Modul is saved and committed on its own, the first error ends the loop
RECURSIVE ModuleSpeichernAb(_, _, _)
ModuleSpeichernAb(d, studiengang, k) ==
    IF k > Len(studiengang.module)
    THEN [fehler |-> "", db |-> d, studiengang |-> studiengang]
    ELSE LET r == ModulRepoSpeichern(d, studiengang.module[k], studiengang.id)
         IN IF r.fehler # ""
            THEN [fehler |-> r.fehler, db |-> d, studiengang |-> studiengang]
            ELSE ModuleSpeichernAb(r.db,
                     [studiengang EXCEPT !.module[k] = r.modul], k + 1)

\* DatenbankManager.speichern(studiengang)
DbSpeichern(d, studiengang) ==
    LET r == StudiengangRepoSpeichern(d, studiengang)
    IN IF r.fehler # "" THEN r
       ELSE ModuleSpeichernAb(r.db, r.studiengang, 1)

----------------------------------------------------------------------------
(* models.py: ZeitEintrag, Lerntermin, Lernsession.  Both classes are records  *)
(* with the same fields; typ is the class, and the attributes a class does not *)
(* have are NONE, KEINE_ZEIT or KEIN_TEXT.                                    *)

TERMIN == "TERMIN"
SESSION == "SESSION"

Lerntermin(datum, start_zeit, geplante_dauer, beschreibung, modul_id) ==
    [typ |-> TERMIN, datum |-> datum, start_zeit |-> start_zeit,
     end_zeit |-> KEINE_ZEIT, geplante_dauer |-> geplante_dauer,
     tatsaechliche_dauer |-> NONE, beschreibung |-> beschreibung,
     modul_id |-> modul_id, id |-> NONE]

\* (end_zeit - start_zeit).total_seconds()
TotalSeconds(start_zeit, end_zeit) ==
    (TagNummer(end_zeit.datum) - TagNummer(start_zeit.datum)) * 86400
    + (end_zeit.minute - start_zeit.minute) * 60
    + end_zeit.sekunde - start_zeit.sekunde

\* Lernsession._berechne_dauer: int((end_zeit - start_zeit).total_seconds() / 60);
\* int() drops the fraction of a float, towards zero also for a negative value
BerechneDauer(start_zeit, end_zeit) ==
    LET sekunden == TotalSeconds(start_zeit, end_zeit)
    IN IF sekunden >= 0 THEN sekunden \div 60 ELSE -((-sekunden) \div 60)

Lernsession(datum, start_zeit, end_zeit, modul_id) ==
    [typ |-> SESSION, datum |-> datum, start_zeit |-> start_zeit,
     end_zeit |-> end_zeit, geplante_dauer |-> NONE,
     tatsaechliche_dauer |-> BerechneDauer(start_zeit, end_zeit),
     beschreibung |-> KEIN_TEXT, modul_id |-> modul_id, id |-> NONE]

\* ZeitEintrag.dauer(): Lerntermin returns geplante_dauer, Lernsession returns
\* tatsaechliche_dauer
Dauer(eintrag) ==
    IF eintrag.typ = TERMIN THEN eintrag.geplante_dauer ELSE eintrag.tatsaechliche_dauer

----------------------------------------------------------------------------
(* database.py: zeiteintraege. *)

\* faulty variant of the row written for an entry: a Lerntermin is given an
\* end_zeit as well, its start_zeit
ZeiteintragZeileMitEnde(eintrag, id) ==
    [id |-> id, typ |-> eintrag.typ, datum |-> Isoformat(eintrag.datum),
     start_zeit |-> IsoformatZeit(eintrag.start_zeit),
     end_zeit |-> IF eintrag.typ = TERMIN THEN IsoformatZeit(eintrag.start_zeit)
                  ELSE IsoformatZeit(eintrag.end_zeit),
     geplante_dauer |-> eintrag.geplante_dauer,
     tatsaechliche_dauer |-> eintrag.tatsaechliche_dauer,
     beschreibung |-> eintrag.beschreibung, modul_id |-> eintrag.modul_id]

\* the row ZeiteintragRepository.speichern writes for the entry: a Lerntermin
\* leaves end_zeit and tatsaechliche_dauer NULL, a Lernsession leaves
\* geplante_dauer and beschreibung NULL
ZeiteintragZeile(eintrag, id) ==
    IF eintrag.typ = TERMIN
    THEN [id |-> id, typ |-> TERMIN, datum |-> Isoformat(eintrag.datum),
          start_zeit |-> IsoformatZeit(eintrag.start_zeit),
          end_zeit |-> KEINE_ZEIT, geplante_dauer |-> eintrag.geplante_dauer,
          tatsaechliche_dauer |-> NONE, beschreibung |-> eintrag.beschreibung,
          modul_id |-> eintrag.modul_id]
    ELSE [id |-> id, typ |-> SESSION, datum |-> Isoformat(eintrag.datum),
          start_zeit |-> IsoformatZeit(eintrag.start_zeit),
          end_zeit |-> IsoformatZeit(eintrag.end_zeit), geplante_dauer |-> NONE,
          tatsaechliche_dauer |-> eintrag.tatsaechliche_dauer,
          beschreibung |-> KEIN_TEXT, modul_id |-> eintrag.modul_id]

\* ZeiteintragRepository.speichern(eintrag): the error raised, the database and
\* the entry afterwards.  The UPDATE leaves typ and the columns of the other
\* class as they are; a modul_id that matches no module row violates the
\* foreign key.
ZeiteintragRepoSpeichern(d, eintrag) ==
    LET neu == eintrag.id = NONE
        id == IF neu THEN d.seq.zeiteintraege + 1 ELSE eintrag.id
        zeile == ZeiteintragZeile(eintrag, id)
        Geaendert(z) ==
            IF eintrag.typ = TERMIN
            THEN [z EXCEPT !.datum = zeile.datum, !.start_zeit = zeile.start_zeit,
                           !.geplante_dauer = zeile.geplante_dauer,
                           !.beschreibung = zeile.beschreibung,
                           !.modul_id = zeile.modul_id]
            ELSE [z EXCEPT !.datum = zeile.datum, !.start_zeit = zeile.start_zeit,
                           !.end_zeit = zeile.end_zeit,
                           !.tatsaechliche_dauer = zeile.tatsaechliche_dauer,
                           !.modul_id = zeile.modul_id]
        trifft == neu \/ id \in Ids(d.zeiteintraege)
    IN IF trifft /\ eintrag.modul_id # NONE /\ eintrag.modul_id \notin Ids(d.module)
       THEN [fehler |-> FehlerFremdschluessel, db |-> d, eintrag |-> eintrag]
       ELSE [fehler |-> "",
             db |-> IF neu
                    THEN [d EXCEPT !.zeiteintraege = @ \cup {zeile},
                                   !.seq.zeiteintraege = id]
                    ELSE [d EXCEPT !.zeiteintraege =
                             {IF z.id = id THEN Geaendert(z) ELSE z : z \in @}],
             eintrag |-> [eintrag EXCEPT !.id = id]]

\* the object laden_alle builds from a row
ZeiteintragAusZeile(z) ==
    IF z.typ = TERMIN
    THEN [Lerntermin(FromIsoformat(z.datum), FromIsoformatZeit(z.start_zeit),
                     z.geplante_dauer, z.beschreibung, z.modul_id)
             EXCEPT !.id = z.id]
    ELSE [Lernsession(FromIsoformat(z.datum), FromIsoformatZeit(z.start_zeit),
                      FromIsoformatZeit(z.end_zeit), z.modul_id)
             EXCEPT !.id = z.id]

\* ZeiteintragRepository.laden_alle(): the lists it may return (ORDER BY datum)
ZeiteintragRepoLadenAlle(d) ==
    {[k \in 1..Len(p) |-> ZeiteintragAusZeile(p[k])] :
        p \in Sortierungen(d.zeiteintraege, LAMBDA z : z.datum)}

----------------------------------------------------------------------------
(* database.py: loading. *)

PlAusZeile(z) ==
    [Pruefungsleistung(z.note, z.versuchs_nummer) EXCEPT !.id = z.id]

\* the lists of Pruefungsleistungen the query of laden_fuer_studiengang may
\* return for a Modul (ORDER BY versuchs_nummer)
PlFolgen(d, modul_id) ==
    {[k \in 1..Len(p) |-> PlAusZeile(p[k])] :
        p \in Sortierungen({z \in d.pruefungsleistungen : z.modul_id = modul_id},
                           LAMBDA z : z.versuchs_nummer)}

\* faulty variant of the Modul built from a row: the stored status is not
\* passed on, so the Modul keeps the default of the constructor
ModulAusZeileOhneStatus(z, pls) ==
    [Modul(z.titel, z.ects, OFFEN, z.geplantes_semester)
        EXCEPT !.id = z.id, !.pruefungsleistungen = pls]

\* the Modul built from a row: the status is the stored one
ModulAusZeile(z, pls) ==
    [Modul(z.titel, z.ects, z.status, z.geplantes_semester)
        EXCEPT !.id = z.id, !.pruefungsleistungen = pls]

RECURSIVE ModulListen(_, _)
ModulListen(d, zeilen) ==
    IF zeilen = <<>> THEN {<<>>}
    ELSE {<<ModulAusZeile(Head(zeilen), pls)>> \o rest :
             pls \in PlFolgen(d, Head(zeilen).id),
             rest \in ModulListen(d, Tail(zeilen))}

\* ModulRepository.laden_fuer_studiengang(sg_id): the lists it may return
LadenFuerStudiengang(d, sg_id) ==
    ModulListen(d, NachId({z \in d.module : z.studiengang_id = sg_id}))

SemesterAusZeile(z) ==
    [Semester(z.nummer, FromIsoformat(z.start_datum), FromIsoformat(z.end_datum))
        EXCEPT !.id = z.id]

\* the semester lists laden_alle may build for a Studiengang (ORDER BY nummer)
SemesterFolgen(d, sg_id) ==
    {[k \in 1..Len(p) |-> SemesterAusZeile(p[k])] :
        p \in Sortierungen({z \in d.semester : z.studiengang_id = sg_id},
                           LAMBDA z : z.nummer)}

\* the Studiengang objects DatenbankManager.laden may build from a row
StudiengangAusZeile(d, z) ==
    {[Studiengang(z.name, z.regelstudienzeit, z.zielschnitt)
         EXCEPT !.id = z.id, !.semester_liste = sems, !.module = module] :
        sems \in SemesterFolgen(d, z.id), module \in LadenFuerStudiengang(d, z.id)}

RECURSIVE StudiengangListen(_, _)
StudiengangListen(d, zeilen) ==
    IF zeilen = <<>> THEN {<<>>}
    ELSE {<<sg>> \o rest : sg \in StudiengangAusZeile(d, Head(zeilen)),
                           rest \in StudiengangListen(d, Tail(zeilen))}

\* DatenbankManager.laden(): the results it may return
DbLaden(d) ==
    {[studiengaenge |-> s, zeiteintraege |-> z] :
        s \in StudiengangListen(d, NachId(d.studiengaenge)),
        z \in ZeiteintragRepoLadenAlle(d)}

----------------------------------------------------------------------------
(* What the user types. *)

Namen == {"Informatik"}
Regelstudienzeiten == {1}
Startdaten == {Datum(2024, 10, 1), Datum(2024, 8, 31)}
GueltigeStartdaten == {Datum(2024, 10, 1)}
Zielschnitte == {15}
Titel == {"Mathe"}
NeueTitel == {"Mathe II"}
EctsWerte == {5}
Plansemester == {1}
Noten == {40, 50, 51}

----------------------------------------------------------------------------
(* ui.py: the handlers of the menus.  A handler that returns before it changes *)
(* anything (an aborted or invalid input) is not a step.  An exception that a   *)
(* handler does not catch ends it and is caught by BenutzerMenue.start; what    *)
(* the handler did before stays.                                                *)

\* the value of letzte: the handler, the error it ended with ("" for none), the
\* number of the Modul it was about and the grade that was typed
Ende(op, fehler, nr, eingabe) ==
    [op |-> op, fehler |-> fehler, modul |-> nr, eingabe |-> eingabe]

AktuellerSg == studiengaenge[aktueller]

\* self.db.speichern(sg) for the current Studiengang object sg, as the last call
\* of the handler op
SpeichernUndEnde(op, sg, nr, eingabe) ==
    LET r == DbSpeichern(db, sg)
    IN /\ db' = r.db
       /\ studiengaenge' = [studiengaenge EXCEPT ![aktueller] = r.studiengang]
       /\ letzte' = Ende(op, r.fehler, nr, eingabe)

\* StudiengangMenue._anlegen
SgAnlegen(name, regelstudienzeit, start) ==
    LET gen == GeneriereSemester(regelstudienzeit, start)
        sg == [Studiengang(name, regelstudienzeit, StandardZielschnitt)
                  EXCEPT !.semester_liste = gen.liste]
        r == DbSpeichern(db, sg)
    IN /\ IF gen.fehler # ""
          THEN /\ letzte' = Ende("SgAnlegen", gen.fehler, NONE, NONE)
               /\ UNCHANGED <<studiengaenge, aktueller, db>>
          ELSE /\ db' = r.db
               /\ IF r.fehler = ""
                  THEN /\ studiengaenge' = Append(studiengaenge, r.studiengang)
                       /\ aktueller' = Len(studiengaenge) + 1
                  ELSE UNCHANGED <<studiengaenge, aktueller>>
               /\ letzte' = Ende("SgAnlegen", r.fehler, NONE, NONE)
       /\ UNCHANGED <<zeiteintraege>>

\* StudiengangMenue._wechseln
SgWechseln(wahl) ==
    /\ Len(studiengaenge) >= 2
    /\ wahl \in 1..Len(studiengaenge)
    /\ wahl # aktueller
    /\ aktueller' = wahl
    /\ letzte' = Ende("SgWechseln", "", NONE, NONE)
    /\ UNCHANGED <<studiengaenge, zeiteintraege, db>>

\* StudiengangMenue._zielschnitt_aendern
SgZielschnittAendern(neuer_schnitt) ==
    /\ aktueller # NONE
    /\ SpeichernUndEnde("SgZielschnittAendern",
                        [AktuellerSg EXCEPT !.zielschnitt = neuer_schnitt], NONE, NONE)
    /\ UNCHANGED <<aktueller, zeiteintraege>>

\* StudiengangMenue._loeschen, answered with j
SgLoeschen ==
    /\ aktueller # NONE
    /\ AktuellerSg.id # NONE
    /\ db' = StudiengangRepoLoeschen(db, AktuellerSg.id)
    /\ studiengaenge' = OhneIndex(studiengaenge, aktueller)
    /\ aktueller' = IF Len(studiengaenge) > 1 THEN 1 ELSE NONE
    /\ letzte' = Ende("SgLoeschen", "", NONE, NONE)
    /\ UNCHANGED <<zeiteintraege>>

\* ModulMenue._hinzufuegen
ModHinzufuegen(titel, ects, semester) ==
    /\ aktueller # NONE
    /\ SpeichernUndEnde("ModHinzufuegen",
           [AktuellerSg EXCEPT !.module = Append(@, Modul(titel, ects, OFFEN, semester))],
           Len(AktuellerSg.module) + 1, NONE)
    /\ UNCHANGED <<aktueller, zeiteintraege>>

\* ModulMenue._loeschen, answered with j: the in-memory Zeiteintraege are not
\* touched, and nothing is saved afterwards
ModLoeschen(nr) ==
    /\ aktueller # NONE
    /\ nr \in 1..Len(AktuellerSg.module)
    /\ LET modul == AktuellerSg.module[nr]
       IN /\ db' = IF modul.id # NONE THEN ModulRepoLoeschen(db, modul.id) ELSE db
          /\ studiengaenge' =
                 [studiengaenge EXCEPT ![aktueller].module = OhneIndex(@, nr)]
    /\ letzte' = Ende("ModLoeschen", "", nr, NONE)
    /\ UNCHANGED <<aktueller, zeiteintraege>>

\* ModulMenue._umbenennen
ModUmbenennen(nr, neuer_name) ==
    /\ aktueller # NONE
    /\ nr \in 1..Len(AktuellerSg.module)
    /\ SpeichernUndEnde("ModUmbenennen",
           [AktuellerSg EXCEPT !.module[nr].titel = neuer_name], nr, NONE)
    /\ UNCHANGED <<aktueller, zeiteintraege>>

\* NotenMenue._eintragen (a Modul that is BESTANDEN: answered with j).  The
\* ValueError of neue_pruefungsleistung is caught and printed.
NoteEintragen(nr, note) ==
    /\ aktueller # NONE
    /\ nr \in 1..Len(AktuellerSg.module)
    /\ LET r == NeuePruefungsleistung(AktuellerSg.module[nr], note)
       IN IF r.fehler # ""
          THEN /\ letzte' = Ende("NoteEintragen", r.fehler, nr, note)
               /\ UNCHANGED <<studiengaenge, db>>
          ELSE SpeichernUndEnde("NoteEintragen",
                   [AktuellerSg EXCEPT !.module[nr] = r.modul], nr, note)
    /\ UNCHANGED <<aktueller, zeiteintraege>>

\* faulty variant of _note_korrigieren: modul.aktualisiere_status() is left out
NoteKorrigierenOhneStatus(nr, v_nr, neue_note) ==
    /\ aktueller # NONE
    /\ nr \in 1..Len(AktuellerSg.module)
    /\ v_nr \in 1..Len(AktuellerSg.module[nr].pruefungsleistungen)
    /\ LET r == SetzeNote(AktuellerSg.module[nr], v_nr, neue_note)
       IN IF r.fehler # ""
          THEN /\ letzte' = Ende("NoteKorrigieren", r.fehler, nr, neue_note)
               /\ UNCHANGED <<studiengaenge, db>>
          ELSE SpeichernUndEnde("NoteKorrigieren",
                   [AktuellerSg EXCEPT !.module[nr] = r.modul], nr, neue_note)
    /\ UNCHANGED <<aktueller, zeiteintraege>>

\* NotenMenue._bearbeiten with k: _note_korrigieren
NoteKorrigieren(nr, v_nr, neue_note) ==
    /\ aktueller # NONE
    /\ nr \in 1..Len(AktuellerSg.module)
    /\ v_nr \in 1..Len(AktuellerSg.module[nr].pruefungsleistungen)
    /\ LET r == SetzeNote(AktuellerSg.module[nr], v_nr, neue_note)
       IN IF r.fehler # ""
          THEN /\ letzte' = Ende("NoteKorrigieren", r.fehler, nr, neue_note)
               /\ UNCHANGED <<studiengaenge, db>>
          ELSE SpeichernUndEnde("NoteKorrigieren",
                   [AktuellerSg EXCEPT !.module[nr] = AktualisiereStatus(r.modul)], nr,
                   neue_note)
    /\ UNCHANGED <<aktueller, zeiteintraege>>

\* NotenMenue._bearbeiten with l: _note_loeschen, answered with j
NoteLoeschen(nr, v_nr) ==
    /\ aktueller # NONE
    /\ nr \in 1..Len(AktuellerSg.module)
    /\ v_nr \in 1..Len(AktuellerSg.module[nr].pruefungsleistungen)
    /\ LET modul == AktuellerSg.module[nr]
           pl == modul.pruefungsleistungen[v_nr]
           d1 == IF pl.id # NONE THEN LoeschenPruefungsleistung(db, pl.id) ELSE db
           m1 == AktualisiereStatus(
                     [modul EXCEPT !.pruefungsleistungen = OhneIndex(@, v_nr)])
           r == DbSpeichern(d1, [AktuellerSg EXCEPT !.module[nr] = m1])
       IN /\ db' = r.db
          /\ studiengaenge' = [studiengaenge EXCEPT ![aktueller] = r.studiengang]
          /\ letzte' = Ende("NoteLoeschen", r.fehler, nr, NONE)
    /\ UNCHANGED <<aktueller, zeiteintraege>>

\* LernterminMenue._modul_auswaehlen(sg) with the current Studiengang: the id
\* of the chosen Modul, or None
ModulAuswaehlen(wahl) ==
    IF aktueller = NONE THEN NONE
    ELSE IF wahl \in 1..Len(AktuellerSg.module) THEN AktuellerSg.module[wahl].id
    ELSE NONE

\* self.db.speichern_zeiteintrag(eintrag) after zeiteintraege.append(eintrag)
EintragAnhaengenUndSpeichern(op, eintrag) ==
    LET r == ZeiteintragRepoSpeichern(db, eintrag)
    IN /\ zeiteintraege' = Append(zeiteintraege, r.eintrag)
       /\ db' = r.db
       /\ letzte' = Ende(op, r.fehler, NONE, NONE)
       /\ UNCHANGED <<studiengaenge, aktueller>>

\* LernterminMenue._planen
TerminPlanen(datum, zeit, dauer, beschreibung, wahl) ==
    EintragAnhaengenUndSpeichern("TerminPlanen",
        Lerntermin(datum, Zeitpunkt(datum, zeit), dauer, beschreibung,
                   ModulAuswaehlen(wahl)))

\* LernsessionMenue._erfassen: an end that is not after the start is refused
SessionErfassen(datum, start, ende, wahl) ==
    /\ ende > start
    /\ EintragAnhaengenUndSpeichern("SessionErfassen",
           Lernsession(datum, Zeitpunkt(datum, start), Zeitpunkt(datum, ende),
                       ModulAuswaehlen(wahl)))

\* the positions in zeiteintraege of the entries of one class, in list order:
\* termine = [t for t in zeiteintraege if isinstance(t, Lerntermin)], and the
\* same for Lernsession
PositionenVomTyp(typ) ==
    LET S == {k \in 1..Len(zeiteintraege) : zeiteintraege[k].typ = typ}
    IN [n \in 1..Cardinality(S) |->
           CHOOSE k \in S : Cardinality({j \in S : j < k}) = n - 1]

\* LernterminMenue._bearbeiten with the choices 1 (datum), 2 (start_zeit), 3
\* (geplante_dauer) and 4 (beschreibung): an empty answer or a dauer of 0 changes
\* nothing, and the termin is saved in every case.  The object is changed also
\* when the save raises.
TerminBearbeiten(nr, wahl, wert) ==
    /\ nr \in 1..Len(PositionenVomTyp(TERMIN))
    /\ LET k == PositionenVomTyp(TERMIN)[nr]
           termin == zeiteintraege[k]
           geaendert ==
               CASE wahl = "1" ->
                        [termin EXCEPT
                            !.datum = wert,
                            !.start_zeit = ZeitpunktMitSekunde(wert, @.minute, @.sekunde)]
                 [] wahl = "2" ->
                        [termin EXCEPT !.start_zeit = Zeitpunkt(termin.datum, wert)]
                 [] wahl = "3" ->
                        IF wert # 0 THEN [termin EXCEPT !.geplante_dauer = wert]
                        ELSE termin
                 [] wahl = "4" ->
                        IF wert # "" THEN [termin EXCEPT !.beschreibung = wert]
                        ELSE termin
           r == ZeiteintragRepoSpeichern(db, geaendert)
       IN /\ zeiteintraege' = [zeiteintraege EXCEPT ![k] = r.eintrag]
          /\ db' = r.db
          /\ letzte' = Ende("TerminBearbeiten", r.fehler, NONE, NONE)
    /\ UNCHANGED <<studiengaenge, aktueller>>

\* the Lernsession that _bestaetigen builds from a termin and the minutes typed
SessionAusTermin(termin, tatsaechlich) ==
    [Lernsession(termin.datum, termin.start_zeit,
                 ZeitPlusMinuten(termin.start_zeit, tatsaechlich), termin.modul_id)
        EXCEPT !.tatsaechliche_dauer = tatsaechlich]

\* faulty variant of the first part of _bestaetigen: the row of the termin is
\* deleted before the session is saved
TerminBestaetigenErstLoeschen(nr, tatsaechlich) ==
    /\ nr \in 1..Len(PositionenVomTyp(TERMIN))
    /\ LET k == PositionenVomTyp(TERMIN)[nr]
           termin == zeiteintraege[k]
           r == ZeiteintragRepoSpeichern(ZeiteintragRepoLoeschen(db, termin.id),
                                         SessionAusTermin(termin, tatsaechlich))
       IN /\ zeiteintraege' = Append(zeiteintraege, r.eintrag)
          /\ db' = r.db
          /\ letzte' = Ende(IF r.fehler = "" THEN "TerminBestaetigen:gespeichert"
                            ELSE "TerminBestaetigen",
                            r.fehler, NONE, [termin |-> k, tatsaechlich |-> tatsaechlich])
    /\ UNCHANGED <<studiengaenge, aktueller>>

\* LernterminMenue._bestaetigen up to the commit of speichern_zeiteintrag: the
\* session is built from the termin and the minutes typed (any integer),
\* appended and saved.  When the save raises the handler ends here, with the
\* session appended; otherwise it goes on with TerminBestaetigenEntfernen.
TerminBestaetigenSpeichern(nr, tatsaechlich) ==
    /\ nr \in 1..Len(PositionenVomTyp(TERMIN))
    /\ LET k == PositionenVomTyp(TERMIN)[nr]
           termin == zeiteintraege[k]
           r == ZeiteintragRepoSpeichern(db, SessionAusTermin(termin, tatsaechlich))
       IN /\ zeiteintraege' = Append(zeiteintraege, r.eintrag)
          /\ db' = r.db
          /\ letzte' = Ende(IF r.fehler = "" THEN "TerminBestaetigen:gespeichert"
                            ELSE "TerminBestaetigen",
                            r.fehler, NONE, [termin |-> k, tatsaechlich |-> tatsaechlich])
    /\ UNCHANGED <<studiengaenge, aktueller>>

\* the handler _bestaetigen is between its save and its removal of the termin
ImBestaetigen == letzte.op = "TerminBestaetigen:gespeichert"

\* the rest of _bestaetigen: zeiteintraege.remove(termin), and
\* loeschen_zeiteintrag(termin.id) if the termin has an id
TerminBestaetigenEntfernen ==
    /\ ImBestaetigen
    /\ LET termin == zeiteintraege[letzte.eingabe.termin]
       IN /\ zeiteintraege' = OhneIndex(zeiteintraege, letzte.eingabe.termin)
          /\ db' = IF termin.id # NONE THEN ZeiteintragRepoLoeschen(db, termin.id)
                   ELSE db
    /\ letzte' = Ende("TerminBestaetigen", "", NONE, letzte.eingabe)
    /\ UNCHANGED <<studiengaenge, aktueller>>

\* LernterminMenue._loeschen and LernsessionMenue._loeschen, answered with j:
\* the entry is removed from the list, and its row is deleted if it has an id
EintragLoeschen(typ, nr) ==
    /\ nr \in 1..Len(PositionenVomTyp(typ))
    /\ LET k == PositionenVomTyp(typ)[nr]
       IN /\ zeiteintraege' = OhneIndex(zeiteintraege, k)
          /\ db' = IF zeiteintraege[k].id # NONE
                   THEN ZeiteintragRepoLoeschen(db, zeiteintraege[k].id)
                   ELSE db
          /\ letzte' = Ende("EintragLoeschen", "", NONE, NONE)
    /\ UNCHANGED <<studiengaenge, aktueller>>

\* the averages of the current Studiengang: berechne_durchschnitt() as the main
\* menu shows it before every choice, and berechne_notendurchschnitt(sg.module)
\* of each of its semesters
Durchschnitte ==
    /\ aktueller # NONE
    /\ letzte' =
           [op |-> "Durchschnitte", fehler |-> "", modul |-> NONE, eingabe |-> NONE,
            ergebnis |->
                [gesamt |-> BerechneDurchschnitt(AktuellerSg),
                 semester |->
                     [k \in 1..Len(AktuellerSg.semester_liste) |->
                         BerechneNotendurchschnitt(AktuellerSg.semester_liste[k],
                                                   AktuellerSg.module)]]]
    /\ UNCHANGED <<studiengaenge, aktueller, zeiteintraege, db>>

\* leaving with 0 and starting again: BenutzerMenue.start calls daten_laden on a
\* new BenutzerMenue, whose aktueller_studiengang is None
Neustart ==
    /\ \E r \in DbLaden(db) :
          /\ studiengaenge' = r.studiengaenge
          /\ zeiteintraege' = r.zeiteintraege
          /\ aktueller' = IF r.studiengaenge # <<>> THEN 1 ELSE NONE
    /\ letzte' = Ende("Neustart", "", NONE, NONE)
    /\ UNCHANGED <<db>>

Init ==
    /\ studiengaenge = <<>>
    /\ aktueller = NONE
    /\ zeiteintraege = <<>>
    /\ db = LeereDb
    /\ letzte = Ende("start", "", NONE, NONE)

\* the rows ever inserted into each table stay within the given bounds
Schranken(sg, sem, mod, pl, ze) ==
    /\ db'.seq.studiengaenge <= sg
    /\ db'.seq.semester <= sem
    /\ db'.seq.module <= mod
    /\ db'.seq.pruefungsleistungen <= pl
    /\ db'.seq.zeiteintraege <= ze

Grenzen == Schranken(MaxSgId, MaxSemId, MaxModId, MaxPlId, 0)

Next ==
    \/ \E name \in Namen, regelstudienzeit \in Regelstudienzeiten,
          start \in GueltigeStartdaten :
          SgAnlegen(name, regelstudienzeit, start) /\ Grenzen
    \/ \E wahl \in 1..MaxSgId : SgWechseln(wahl)
    \/ \E neuer_schnitt \in Zielschnitte : SgZielschnittAendern(neuer_schnitt) /\ Grenzen
    \/ SgLoeschen
    \/ \E titel \in Titel, ects \in EctsWerte, semester \in Plansemester :
          ModHinzufuegen(titel, ects, semester) /\ Grenzen
    \/ \E nr \in 1..MaxModId : ModLoeschen(nr)
    \/ \E nr \in 1..MaxModId, neuer_name \in NeueTitel :
          ModUmbenennen(nr, neuer_name) /\ Grenzen
    \/ \E nr \in 1..MaxModId, note \in Noten : NoteEintragen(nr, note) /\ Grenzen
    \/ \E nr \in 1..MaxModId, v_nr \in 1..MaxVersuche, neue_note \in Noten :
          NoteKorrigieren(nr, v_nr, neue_note) /\ Grenzen
    \/ \E nr \in 1..MaxModId, v_nr \in 1..MaxVersuche : NoteLoeschen(nr, v_nr) /\ Grenzen
    \/ Neustart

Spec == Init /\ [][Next]_vars

----------------------------------------------------------------------------
(* One Studiengang with one Modul whose grades are entered, corrected and
   removed over a longer run of the program. *)

NotenMaxSgId == 1
NotenMaxSemId == 8
NotenMaxModId == 1
NotenMaxPlId == 4

GrenzenNoten == Schranken(NotenMaxSgId, NotenMaxSemId, NotenMaxModId, NotenMaxPlId, 0)

NextNoten ==
    \/ \E name \in Namen, regelstudienzeit \in Regelstudienzeiten, start \in Startdaten :
          SgAnlegen(name, regelstudienzeit, start) /\ GrenzenNoten
    \/ \E titel \in Titel, ects \in EctsWerte, semester \in Plansemester :
          ModHinzufuegen(titel, ects, semester) /\ GrenzenNoten
    \/ \E nr \in 1..NotenMaxModId, note \in Noten :
          NoteEintragen(nr, note) /\ GrenzenNoten
    \/ \E nr \in 1..NotenMaxModId, v_nr \in 1..MaxVersuche, neue_note \in Noten :
          NoteKorrigieren(nr, v_nr, neue_note) /\ GrenzenNoten
    \/ \E nr \in 1..NotenMaxModId, v_nr \in 1..MaxVersuche :
          NoteLoeschen(nr, v_nr) /\ GrenzenNoten
    \/ Neustart
    \/ Durchschnitte

SpecNoten == Init /\ [][NextNoten]_vars

----------------------------------------------------------------------------
(* The classes of models.py and DatenbankManager used directly, without the
   menus: Studiengang objects are constructed, given semesters, Module and
   Pruefungsleistungen, and saved. *)

ApiMaxSg == 1
ApiMaxObjekte == 5
ApiMaxSemId == 2

ApiRegelstudienzeiten == {1, 2}
ApiStati == {OFFEN}
ApiNoten == {9, 40, 41}

\* the Modul objects and the Pruefungsleistung objects in memory
AnzahlModule ==
    Summe([i \in 1..Len(studiengaenge) |-> Len(studiengaenge[i].module)],
          Len(studiengaenge))

AnzahlPruefungsleistungen ==
    Summe([i \in 1..Len(studiengaenge) |->
              Summe([k \in 1..Len(studiengaenge[i].module) |->
                        Len(studiengaenge[i].module[k].pruefungsleistungen)],
                    Len(studiengaenge[i].module))],
          Len(studiengaenge))

AnzahlSemester ==
    Summe([i \in 1..Len(studiengaenge) |-> Len(studiengaenge[i].semester_liste)],
          Len(studiengaenge))

\* the Studiengang, Semester, Modul and Pruefungsleistung objects in memory
AnzahlObjekte ==
    Len(studiengaenge) + AnzahlSemester + AnzahlModule + AnzahlPruefungsleistungen

\* the value of letzte after a call: sg and modul are the positions of the
\* objects the call was made on, eingabe is the grade or the start date passed
ApiEnde(op, fehler, sg, nr, eingabe) ==
    [op |-> op, fehler |-> fehler, sg |-> sg, modul |-> nr, eingabe |-> eingabe]

\* Studiengang(name, regelstudienzeit, zielschnitt)
ApiStudiengang(name, regelstudienzeit, zielschnitt) ==
    /\ AnzahlObjekte < ApiMaxObjekte
    /\ studiengaenge' =
           Append(studiengaenge, Studiengang(name, regelstudienzeit, zielschnitt))
    /\ letzte' = ApiEnde("Studiengang", "", Len(studiengaenge) + 1, NONE, NONE)
    /\ UNCHANGED <<aktueller, zeiteintraege, db>>

\* studiengaenge[i].generiere_semester(start): when replace() raises, the list
\* holds the semesters appended before
ApiGeneriereSemester(i, start) ==
    /\ i \in 1..Len(studiengaenge)
    /\ LET gen == GeneriereSemester(studiengaenge[i].regelstudienzeit, start)
       IN /\ studiengaenge' = [studiengaenge EXCEPT ![i].semester_liste = gen.liste]
          /\ letzte' = ApiEnde("generiere_semester", gen.fehler, i, NONE, start)
          /\ AnzahlObjekte - Len(studiengaenge[i].semester_liste) + Len(gen.liste)
                 <= ApiMaxObjekte
    /\ UNCHANGED <<aktueller, zeiteintraege, db>>

\* studiengaenge[i].module.append(Modul(titel, ects, status, semester))
ApiModul(i, titel, ects, status, semester) ==
    /\ i \in 1..Len(studiengaenge)
    /\ AnzahlObjekte < ApiMaxObjekte
    /\ studiengaenge' = [studiengaenge EXCEPT
           ![i].module = Append(@, Modul(titel, ects, status, semester))]
    /\ letzte' = ApiEnde("Modul", "", i, Len(studiengaenge[i].module) + 1, NONE)
    /\ UNCHANGED <<aktueller, zeiteintraege, db>>

\* studiengaenge[i].module[nr].neue_pruefungsleistung(note)
ApiNeuePruefungsleistung(i, nr, note) ==
    /\ i \in 1..Len(studiengaenge)
    /\ nr \in 1..Len(studiengaenge[i].module)
    /\ AnzahlObjekte < ApiMaxObjekte
    /\ LET r == NeuePruefungsleistung(studiengaenge[i].module[nr], note)
       IN /\ studiengaenge' = [studiengaenge EXCEPT ![i].module[nr] = r.modul]
          /\ letzte' = ApiEnde("neue_pruefungsleistung", r.fehler, i, nr, note)
    /\ UNCHANGED <<aktueller, zeiteintraege, db>>

\* the value of letzte after a call that returns a value
ApiAntwort(op, sg, eingabe, ergebnis) ==
    [op |-> op, fehler |-> "", sg |-> sg, modul |-> NONE, eingabe |-> eingabe,
     ergebnis |-> ergebnis]

\* studiengaenge[i].get_aktuelles_semester() at the time jetzt
ApiGetAktuellesSemester(i, jetzt) ==
    /\ i \in 1..Len(studiengaenge)
    /\ letzte' = ApiAntwort("get_aktuelles_semester", i, jetzt,
                            GetAktuellesSemester(studiengaenge[i], jetzt))
    /\ UNCHANGED <<studiengaenge, aktueller, zeiteintraege, db>>

\* db.speichern(studiengaenge[i]); letzte tells a first save from a later one
ApiSpeichern(i) ==
    /\ i \in 1..Len(studiengaenge)
    /\ LET r == DbSpeichern(db, studiengaenge[i])
       IN /\ db' = r.db
          /\ studiengaenge' = [studiengaenge EXCEPT ![i] = r.studiengang]
          /\ letzte' = ApiEnde(IF studiengaenge[i].id = NONE
                               THEN "erstes speichern" ELSE "speichern",
                               r.fehler, i, NONE, NONE)
    /\ UNCHANGED <<aktueller, zeiteintraege>>

NextApi ==
    \/ \E name \in Namen, regelstudienzeit \in ApiRegelstudienzeiten,
          zielschnitt \in Zielschnitte :
          ApiStudiengang(name, regelstudienzeit, zielschnitt)
              /\ Len(studiengaenge) < ApiMaxSg
    \/ \E i \in 1..ApiMaxSg, start \in Startdaten : ApiGeneriereSemester(i, start)
    \/ \E i \in 1..ApiMaxSg, titel \in Titel, ects \in EctsWerte, status \in ApiStati,
          semester \in Plansemester : ApiModul(i, titel, ects, status, semester)
    \/ \E i \in 1..ApiMaxSg, nr \in 1..ApiMaxObjekte, note \in ApiNoten :
          ApiNeuePruefungsleistung(i, nr, note)
    \/ \E i \in 1..ApiMaxSg : ApiSpeichern(i) /\ db'.seq.semester <= ApiMaxSemId

SpecApi == Init /\ [][NextApi]_vars

----------------------------------------------------------------------------
(* Two Studiengaenge with Module, grades and Zeiteintraege, and the handlers
   that delete a Studiengang or a Modul. *)

KaskadeMaxSgId == 2
KaskadeMaxSemId == 4
KaskadeMaxModId == 2
KaskadeMaxPlId == 1
KaskadeMaxZeId == 1

KaskadeNoten == {50}
Tage == {Datum(2025, 1, 15)}
Terminzeiten == {600}
Uhrzeiten == {600, 690}
Dauern == {90}
Beschreibungen == {"Lernen"}

GrenzenKaskade ==
    Schranken(KaskadeMaxSgId, KaskadeMaxSemId, KaskadeMaxModId, KaskadeMaxPlId,
              KaskadeMaxZeId)

NextKaskade ==
    \/ \E name \in Namen, regelstudienzeit \in Regelstudienzeiten,
          start \in GueltigeStartdaten :
          SgAnlegen(name, regelstudienzeit, start) /\ GrenzenKaskade
    \/ \E wahl \in 1..KaskadeMaxSgId : SgWechseln(wahl)
    \/ SgLoeschen
    \/ \E titel \in Titel, ects \in EctsWerte, semester \in Plansemester :
          ModHinzufuegen(titel, ects, semester) /\ GrenzenKaskade
    \/ \E nr \in 1..KaskadeMaxModId : ModLoeschen(nr)
    \/ \E nr \in 1..KaskadeMaxModId, note \in KaskadeNoten :
          NoteEintragen(nr, note) /\ GrenzenKaskade
    \/ \E datum \in Tage, zeit \in Terminzeiten, dauer \in Dauern,
          beschreibung \in Beschreibungen, wahl \in 0..KaskadeMaxModId :
          TerminPlanen(datum, zeit, dauer, beschreibung, wahl) /\ GrenzenKaskade
    \/ \E datum \in Tage, start \in Uhrzeiten, ende \in Uhrzeiten,
          wahl \in 0..KaskadeMaxModId :
          SessionErfassen(datum, start, ende, wahl) /\ GrenzenKaskade

SpecKaskade == Init /\ [][NextKaskade]_vars

----------------------------------------------------------------------------
(* generiere_semester on a Studiengang of every regelstudienzeit up to MaxRegel
   and for the days of two years, one of them a leap year. *)

SemesterJahre == {2023, 2024}
SemesterTage == {1, 15, 28, 29, 30, 31}

AlleStartdaten ==
    {d \in {Datum(j, m, t) : j \in SemesterJahre, m \in 1..12, t \in SemesterTage} :
        DatumGueltig(d)}

NextSemester ==
    \/ \E name \in Namen, regelstudienzeit \in 1..MaxRegel, zielschnitt \in Zielschnitte :
          ApiStudiengang(name, regelstudienzeit, zielschnitt)
              /\ Len(studiengaenge) < ApiMaxSg
    \/ \E i \in 1..ApiMaxSg, start \in AlleStartdaten : ApiGeneriereSemester(i, start)

SpecSemester == Init /\ [][NextSemester]_vars

----------------------------------------------------------------------------
(* Properties of the grade handlers: C1, C3 and C4 under Spec, C6 and C7 under
   SpecNoten. *)

\* every Modul object held in memory
AlleModule ==
    UNION {{studiengaenge[i].module[k] : k \in 1..Len(studiengaenge[i].module)} :
              i \in 1..Len(studiengaenge)}

\* the Modul the last handler was about
LetztesModul == AktuellerSg.module[letzte.modul]

NotenOps == {"NoteEintragen", "NoteKorrigieren", "NoteLoeschen"}

\* the status the rule of the specification derives from a list of attempts
StatusNachRegel(pls) ==
    IF Len(pls) > 0 /\ pls[Len(pls)].note <= 40 THEN BESTANDEN
    ELSE IF Len(pls) >= 3 THEN NICHT_BESTANDEN
    ELSE OFFEN

\* C1: a Modul never holds more than 3 Pruefungsleistungen, and adding one to a
\* Modul that holds 3 ends with the capacity error and leaves every Modul (its
\* attempts and its status) as it was.
C1_HoechstensDreiVersuche ==
    /\ [](\A m \in AlleModule : Len(m.pruefungsleistungen) <= 3)
    /\ [][(/\ letzte'.op = "NoteEintragen"
           /\ Len(AktuellerSg.module[letzte'.modul].pruefungsleistungen) = 3)
          => (/\ letzte'.fehler = FehlerVersuche
              /\ studiengaenge' = studiengaenge
              /\ db' = db)]_vars

\* a fourth Pruefungsleistung has just been refused
C1_Zeuge ==
    /\ letzte.op = "NoteEintragen"
    /\ letzte.fehler = FehlerVersuche
    /\ Len(LetztesModul.pruefungsleistungen) = 3
    /\ NoteGueltig(letzte.eingabe)

\* C3: after _eintragen, _note_korrigieren and _note_loeschen have gone through,
\* the status of the Modul is the one the rule derives from its attempts.
C3_StatusNachNotenOperation ==
    (letzte.op \in NotenOps /\ letzte.fehler = "")
        => LetztesModul.status = StatusNachRegel(LetztesModul.pruefungsleistungen)

\* a correction has turned the failed last attempt of a Modul into a passed one
C3_Zeuge ==
    /\ letzte.op = "NoteKorrigieren"
    /\ letzte.fehler = ""
    /\ LetztesModul.status = BESTANDEN
    /\ \E z \in db.pruefungsleistungen :
          /\ z.id = Letztes(LetztesModul.pruefungsleistungen).id
          /\ z.note > 40

\* C4: every stored grade lies in [1.0, 5.0]; entering or correcting a grade
\* with a value outside the range ends with an error, and a grade handler that
\* ends with an error leaves the objects and the database as they were.
C4_NoteImBereich ==
    /\ [](/\ \A m \in AlleModule :
                \A i \in 1..Len(m.pruefungsleistungen) :
                    10 <= m.pruefungsleistungen[i].note
                        /\ m.pruefungsleistungen[i].note <= 50
          /\ \A z \in db.pruefungsleistungen : 10 <= z.note /\ z.note <= 50)
    /\ [][(letzte'.op \in {"NoteEintragen", "NoteKorrigieren"})
          => /\ (letzte'.eingabe < 10 \/ letzte'.eingabe > 50)
                  => letzte'.fehler \in {FehlerNote, FehlerVersuche}
             /\ (letzte'.op = "NoteKorrigieren"
                    /\ (letzte'.eingabe < 10 \/ letzte'.eingabe > 50))
                  => letzte'.fehler = FehlerNote
             /\ letzte'.fehler # ""
                  => (studiengaenge' = studiengaenge /\ db' = db)]_vars

\* a correction to a value above 5.0 has just been refused
C4_Zeuge ==
    /\ letzte.op = "NoteKorrigieren"
    /\ letzte.fehler = FehlerNote
    /\ letzte.eingabe > 50
    /\ LetztesModul.pruefungsleistungen # <<>>

\* the ids of a list of objects, in the order of the list
IdFolge(liste) == [i \in 1..Len(liste) |-> liste[i].id]

\* C6: after a grade has been entered or an attempt removed, loading gives the
\* attempts of every Modul of the current Studiengang in the order they have
\* in memory.
C6_ReihenfolgeBleibt ==
    (letzte.op \in {"NoteEintragen", "NoteLoeschen"} /\ letzte.fehler = "")
        => \A r \in DbLaden(db) :
             \A i \in 1..Len(r.studiengaenge) :
               r.studiengaenge[i].id = AktuellerSg.id
                 => \A k \in 1..Len(r.studiengaenge[i].module) :
                      \A l \in 1..Len(AktuellerSg.module) :
                        r.studiengaenge[i].module[k].id = AktuellerSg.module[l].id
                          => IdFolge(r.studiengaenge[i].module[k].pruefungsleistungen)
                               = IdFolge(AktuellerSg.module[l].pruefungsleistungen)

\* C7: after a grade handler has gone through, every Modul that loading gives
\* has the status the rule derives from its loaded attempts.
C7_GeladenerStatusNachRegel ==
    (letzte.op \in NotenOps /\ letzte.fehler = "")
        => \A r \in DbLaden(db) :
             \A i \in 1..Len(r.studiengaenge) :
               \A k \in 1..Len(r.studiengaenge[i].module) :
                  r.studiengaenge[i].module[k].status =
                      StatusNachRegel(r.studiengaenge[i].module[k].pruefungsleistungen)

----------------------------------------------------------------------------
(* Properties of the classes used directly, checked under SpecApi. *)

\* the Studiengang and the Modul the last call was made on
ApiLetzterSg == studiengaenge[letzte.sg]
ApiLetztesModul == ApiLetzterSg.module[letzte.modul]

\* C2: after each valid grade added with neue_pruefungsleistung to a Modul that
\* was constructed OFFEN and has only been added to, the status is BESTANDEN if
\* the grade just added is at most 4.0, otherwise NICHT_BESTANDEN if the Modul
\* now has 3 Pruefungsleistungen, otherwise OFFEN.
C2_StatusNachJederNote ==
    (letzte.op = "neue_pruefungsleistung" /\ letzte.fehler = "")
        => /\ Letztes(ApiLetztesModul.pruefungsleistungen).note = letzte.eingabe
           /\ ApiLetztesModul.status =
                  IF letzte.eingabe <= 40 THEN BESTANDEN
                  ELSE IF Len(ApiLetztesModul.pruefungsleistungen) = 3
                  THEN NICHT_BESTANDEN
                  ELSE OFFEN

\* two failed attempts and a third one with 4.0 have been added
C2_Zeuge ==
    /\ letzte.op = "neue_pruefungsleistung"
    /\ letzte.fehler = ""
    /\ Len(ApiLetztesModul.pruefungsleistungen) = 3
    /\ [i \in 1..3 |-> ApiLetztesModul.pruefungsleistungen[i].note] = <<41, 41, 40>>
    /\ ApiLetztesModul.status = BESTANDEN

\* C5: after the first save of a Studiengang, every result of laden() holds a
\* Studiengang with the same id, name, regelstudienzeit and zielschnitt, the
\* same semester_liste, and the same Module (id, fields, status), each with the
\* same list of Pruefungsleistungen (id, note, versuchs_nummer).
C5_ErstesSpeichernLaedtGleich ==
    (letzte.op = "erstes speichern" /\ letzte.fehler = "")
        => /\ ApiLetzterSg.id # NONE
           /\ \A r \in DbLaden(db) :
                \E i \in 1..Len(r.studiengaenge) :
                   LET g == r.studiengaenge[i]
                   IN /\ g.id = ApiLetzterSg.id
                      /\ g.name = ApiLetzterSg.name
                      /\ g.regelstudienzeit = ApiLetzterSg.regelstudienzeit
                      /\ g.zielschnitt = ApiLetzterSg.zielschnitt
                      /\ g.semester_liste = ApiLetzterSg.semester_liste
                      /\ Len(g.module) = Len(ApiLetzterSg.module)
                      /\ {g.module[k] : k \in 1..Len(g.module)}
                           = {ApiLetzterSg.module[k] : k \in 1..Len(g.module)}

\* a Studiengang with two semesters and a Modul that was passed has been saved
\* for the first time
C5_Zeuge ==
    /\ letzte.op = "erstes speichern"
    /\ letzte.fehler = ""
    /\ Len(ApiLetzterSg.semester_liste) = 2
    /\ \E k \in 1..Len(ApiLetzterSg.module) :
          /\ ApiLetzterSg.module[k].pruefungsleistungen # <<>>
          /\ ApiLetzterSg.module[k].status = BESTANDEN

----------------------------------------------------------------------------
(* Properties of deleting, checked under SpecKaskade. *)

LoeschOps == {"SgLoeschen", "ModLoeschen"}

\* the module rows of the Studiengang row sg_id in the database d
ModulIdsVon(d, sg_id) == {z.id : z \in {m \in d.module : m.studiengang_id = sg_id}}

\* C8: after _loeschen of a Studiengang the database holds no semester, module
\* or pruefungsleistungen row that belonged to it, after _loeschen of a Modul
\* none of its pruefungsleistungen rows, and the rows of the other Studiengaenge
\* and Module are as before; no row is ever left without its owner.
C8_Kaskade ==
    /\ [](/\ \A z \in db.semester : z.studiengang_id \in Ids(db.studiengaenge)
          /\ \A z \in db.module : z.studiengang_id \in Ids(db.studiengaenge)
          /\ \A z \in db.pruefungsleistungen : z.modul_id \in Ids(db.module))
    /\ [][/\ letzte'.op = "SgLoeschen"
             => LET sg_id == AktuellerSg.id
                    weg == ModulIdsVon(db, sg_id)
                IN /\ db'.studiengaenge = {z \in db.studiengaenge : z.id # sg_id}
                   /\ db'.semester = {z \in db.semester : z.studiengang_id # sg_id}
                   /\ db'.module = {z \in db.module : z.studiengang_id # sg_id}
                   /\ db'.pruefungsleistungen =
                          {z \in db.pruefungsleistungen : z.modul_id \notin weg}
          /\ letzte'.op = "ModLoeschen"
             => LET modul_id == AktuellerSg.module[letzte'.modul].id
                IN /\ db'.studiengaenge = db.studiengaenge
                   /\ db'.semester = db.semester
                   /\ db'.module = {z \in db.module : z.id # modul_id}
                   /\ db'.pruefungsleistungen =
                          {z \in db.pruefungsleistungen : z.modul_id # modul_id}]_vars

\* a Studiengang has just been deleted, the only grade ever stored went with
\* it, and the other Studiengang is still stored
C8_Zeuge ==
    /\ letzte.op = "SgLoeschen"
    /\ db.seq.pruefungsleistungen = 1
    /\ db.pruefungsleistungen = {}
    /\ db.seq.module = 1
    /\ db.module = {}
    /\ Cardinality(db.studiengaenge) = 1
    /\ Cardinality(db.semester) = 1

\* C9: deleting a Studiengang or a Modul removes no zeiteintraege row: every row
\* is still there with the same columns, except that modul_id is NULL where it
\* referenced a module row that was deleted.
C9_ZeiteintraegeBleiben ==
    [][letzte'.op \in LoeschOps
       => LET weg == Ids(db.module) \ Ids(db'.module)
          IN db'.zeiteintraege =
                 {IF z.modul_id \in weg THEN [z EXCEPT !.modul_id = NONE] ELSE z :
                     z \in db.zeiteintraege}]_vars

\* a Modul has just been deleted; the Zeiteintrag object that was assigned to
\* it still names it, and its row has modul_id NULL
C9_Zeuge ==
    /\ letzte.op \in LoeschOps
    /\ \E i \in 1..Len(zeiteintraege) :
          /\ zeiteintraege[i].modul_id # NONE
          /\ zeiteintraege[i].modul_id \notin Ids(db.module)
          /\ \E z \in db.zeiteintraege :
                /\ z.id = zeiteintraege[i].id
                /\ z.modul_id = NONE
                /\ z.typ = zeiteintraege[i].typ
                /\ z.datum = Isoformat(zeiteintraege[i].datum)

----------------------------------------------------------------------------
(* Properties of generiere_semester, checked under SpecSemester. *)

\* the same day six calendar months later
PlusSechsMonate(d) ==
    IF d.monat > 6 THEN Datum(d.jahr + 1, d.monat - 6, d.tag)
    ELSE Datum(d.jahr, d.monat + 6, d.tag)

\* C10: for every start date and every regelstudienzeit N, generiere_semester
\* raises nothing and leaves exactly N semesters numbered 1..N, the first
\* starting at the start date, each next one starting six calendar months after
\* the one before, and each ending on the day before the next start.
C10_SemesterFuerJedesDatum ==
    letzte.op = "generiere_semester"
        => LET liste == ApiLetzterSg.semester_liste
               n == ApiLetzterSg.regelstudienzeit
           IN /\ letzte.fehler = ""
              /\ Len(liste) = n
              /\ liste[1].start_datum = letzte.eingabe
              /\ \A k \in 1..n :
                    LET naechster == PlusSechsMonate(liste[k].start_datum)
                    IN /\ liste[k].nummer = k
                       /\ k < n => liste[k + 1].start_datum = naechster
                       /\ DatumGueltig(liste[k].end_datum)
                       /\ TagNummer(liste[k].end_datum) = TagNummer(naechster) - 1

----------------------------------------------------------------------------
(* Direct calls that build one programme and ask it for its current semester. *)

AktuellStartdaten ==
    {Datum(2023, 10, 1), Datum(2024, 4, 1), Datum(2024, 10, 1), Datum(2025, 4, 1),
     Datum(2024, 8, 31)}

\* values of datetime.now(): before every semester, on the first and on the last
\* day of a semester at midnight, during the last day, and after every semester
Jetzt ==
    {Zeitpunkt(Datum(2022, 12, 31), 600), Zeitpunkt(Datum(2024, 10, 1), 0),
     Zeitpunkt(Datum(2025, 3, 31), 0), Zeitpunkt(Datum(2025, 3, 31), 600),
     Zeitpunkt(Datum(2025, 4, 1), 0), Zeitpunkt(Datum(2025, 6, 15), 600),
     Zeitpunkt(Datum(2027, 1, 1), 0)}

NextAktuell ==
    \/ \E name \in Namen, regelstudienzeit \in 1..MaxRegel, zielschnitt \in Zielschnitte :
          ApiStudiengang(name, regelstudienzeit, zielschnitt)
              /\ Len(studiengaenge) < ApiMaxSg
    \/ \E i \in 1..ApiMaxSg, start \in AktuellStartdaten : ApiGeneriereSemester(i, start)
    \/ \E i \in 1..ApiMaxSg, jetzt \in Jetzt : ApiGetAktuellesSemester(i, jetzt)

SpecAktuell == Init /\ [][NextAktuell]_vars

----------------------------------------------------------------------------
(* Properties of get_aktuelles_semester, checked under SpecAktuell. *)

\* the minutes from 0001-01-01 00:00 to a datetime
MinutenNummer(z) == (TagNummer(z.datum) - 1) * 1440 + z.minute

\* jetzt lies in [start_datum, end_datum] of the semester, both ends included
ImSemester(sem, jetzt) ==
    /\ MinutenNummer(Zeitpunkt(sem.start_datum, 0)) <= MinutenNummer(jetzt)
    /\ MinutenNummer(jetzt) <= MinutenNummer(Zeitpunkt(sem.end_datum, 0))

----------------------------------------------------------------------------
(* Direct calls on Lernsession objects: the constructor with any two datetimes
   and assignments to the attributes start_zeit and end_zeit. *)

SessionMaxAnzahl == 1

\* datetimes with seconds around 14:00, and one after the following midnight
SessionZeiten ==
    {ZeitpunktMitSekunde(Datum(2025, 1, 15), 840, 0),
     ZeitpunktMitSekunde(Datum(2025, 1, 15), 930, 0),
     ZeitpunktMitSekunde(Datum(2025, 1, 15), 839, 30),
     ZeitpunktMitSekunde(Datum(2025, 1, 15), 838, 30),
     ZeitpunktMitSekunde(Datum(2025, 1, 15), 840, 59),
     ZeitpunktMitSekunde(Datum(2025, 1, 16), 10, 0)}

\* zeiteintraege.append(Lernsession(datum, start_zeit, end_zeit))
ApiLernsession(datum, start_zeit, end_zeit) ==
    /\ Len(zeiteintraege) < SessionMaxAnzahl
    /\ zeiteintraege' =
           Append(zeiteintraege, Lernsession(datum, start_zeit, end_zeit, NONE))
    /\ letzte' = ApiEnde("Lernsession", "", NONE, NONE, <<start_zeit, end_zeit>>)
    /\ UNCHANGED <<studiengaenge, aktueller, db>>

\* zeiteintraege[k].start_zeit = wert or zeiteintraege[k].end_zeit = wert: plain
\* attributes, the assignment changes nothing else
ApiSetzeZeit(k, attribut, wert) ==
    /\ k \in 1..Len(zeiteintraege)
    /\ zeiteintraege[k].typ = SESSION
    /\ zeiteintraege' =
           IF attribut = "start_zeit"
           THEN [zeiteintraege EXCEPT ![k].start_zeit = wert]
           ELSE [zeiteintraege EXCEPT ![k].end_zeit = wert]
    /\ letzte' = ApiEnde(attribut, "", NONE, k, wert)
    /\ UNCHANGED <<studiengaenge, aktueller, db>>

NextSession ==
    \/ \E start_zeit \in SessionZeiten, end_zeit \in SessionZeiten :
          ApiLernsession(Datum(2025, 1, 15), start_zeit, end_zeit)
    \/ \E k \in 1..SessionMaxAnzahl, attribut \in {"start_zeit", "end_zeit"},
          wert \in SessionZeiten : ApiSetzeZeit(k, attribut, wert)

SpecSession == Init /\ [][NextSession]_vars

\* floor((end - start) in seconds / 60)
GanzeMinuten(start_zeit, end_zeit) == TotalSeconds(start_zeit, end_zeit) \div 60

\* C12: for every start and end the constructor of Lernsession accepts, end
\* before start included, dauer() returns floor((end - start) in seconds / 60)
\* as computed at construction; for 14:00 to 15:30 on one day that is 90.
C12_DauerIstAbgerundet ==
    letzte.op = "Lernsession"
        => Dauer(Letztes(zeiteintraege))
               = GanzeMinuten(letzte.eingabe[1], letzte.eingabe[2])

\* the part of C12 about 14:00 to 15:30
C12_NeunzigMinuten ==
    (/\ letzte.op = "Lernsession"
     /\ letzte.eingabe = <<Zeitpunkt(Datum(2025, 1, 15), 840),
                           Zeitpunkt(Datum(2025, 1, 15), 930)>>)
        => Dauer(Letztes(zeiteintraege)) = 90

\* C19: the tatsaechliche_dauer of a Lernsession is derived again whenever its
\* start_zeit or end_zeit changes, so in every state dauer() is the whole
\* minutes between its present start_zeit and end_zeit.
C19_DauerFolgtDenZeiten ==
    \A k \in 1..Len(zeiteintraege) :
        zeiteintraege[k].typ = SESSION
            => Dauer(zeiteintraege[k])
                   = BerechneDauer(zeiteintraege[k].start_zeit,
                                   zeiteintraege[k].end_zeit)

----------------------------------------------------------------------------
(* The averages, checked under SpecNoten. *)

\* the sum of the last notes of a set of modules
RECURSIVE NotenSumme(_)
NotenSumme(M) ==
    IF M = {} THEN 0
    ELSE LET m == CHOOSE x \in M : TRUE
         IN Letztes(m.pruefungsleistungen).note + NotenSumme(M \ {m})

\* the result r is what C13 states for the set M of the modules that qualify
DurchschnittNachRegel(r, M) ==
    /\ r = 0 <=> M = {}
    /\ M # {} => /\ \A m \in M : m.pruefungsleistungen # <<>>
                 /\ r * Cardinality(M) = NotenSumme(M) * 10
                 /\ NoteMin * 10 <= r
                 /\ r <= Bestehensgrenze * 10

\* C13: berechne_durchschnitt and berechne_notendurchschnitt never raise and
\* return 0.0 whenever no Modul qualifies (none is passed, or none that is planned
\* for the semester is passed); when at least one qualifies the result is the
\* mean of the last notes of the qualifying modules and lies in [1.0, 4.0], so
\* 0.0 is returned exactly when no Modul qualifies.
C13_Durchschnitt ==
    letzte.op = "Durchschnitte"
        => LET positionen == 1..Len(AktuellerSg.module)
               bestanden == {k \in positionen : ModulIstBestanden(AktuellerSg.module[k])}
           IN /\ DurchschnittNachRegel(letzte.ergebnis.gesamt,
                                       {AktuellerSg.module[k] : k \in bestanden})
              /\ \A n \in 1..Len(AktuellerSg.semester_liste) :
                    DurchschnittNachRegel(
                        letzte.ergebnis.semester[n],
                        {AktuellerSg.module[k] :
                            k \in {j \in bestanden :
                                     AktuellerSg.module[j].geplantes_semester
                                         = AktuellerSg.semester_liste[n].nummer}})

----------------------------------------------------------------------------
(* Direct calls that build two Studiengaenge, generate their semesters, also a
   second time from another date, and save them. *)

SpeichernMaxSg == 2
SpeichernMaxSemId == 4

SpeichernStartdaten == {Datum(2024, 10, 1), Datum(2025, 4, 1)}

NextSpeichern ==
    \/ \E name \in Namen, regelstudienzeit \in ApiRegelstudienzeiten,
          zielschnitt \in Zielschnitte :
          ApiStudiengang(name, regelstudienzeit, zielschnitt)
              /\ Len(studiengaenge) < SpeichernMaxSg
    \/ \E i \in 1..SpeichernMaxSg, start \in SpeichernStartdaten :
          ApiGeneriereSemester(i, start)
    \/ \E i \in 1..SpeichernMaxSg :
          ApiSpeichern(i) /\ db'.seq.semester <= SpeichernMaxSemId

SpecSpeichern == Init /\ [][NextSpeichern]_vars

----------------------------------------------------------------------------
(* What a save does to the rows of the Pruefungsleistungen, checked under Spec,
   and to the rows of the Semesters, checked under SpecSpeichern. *)

\* the Pruefungsleistung objects in memory
AllePruefungsleistungen ==
    UNION {{m.pruefungsleistungen[k] : k \in 1..Len(m.pruefungsleistungen)} :
              m \in AlleModule}

\* C14: a save never rewrites a Pruefungsleistung that already has an id: the
\* stored note and versuchs_nummer of a row stay what its insert wrote, also
\* after the note of the object was corrected and the Studiengang saved; only
\* Pruefungsleistungen without id are inserted, and they are given a new id.
C14_GespeicherteVersucheBleiben ==
    [][/\ \A z \in db.pruefungsleistungen : \A y \in db'.pruefungsleistungen :
             y.id = z.id => y = z
       /\ \A y \in db'.pruefungsleistungen :
             y.id \notin Ids(db.pruefungsleistungen)
                 => /\ y.id > db.seq.pruefungsleistungen
                    /\ \E pl \in AllePruefungsleistungen' :
                          /\ pl.id = y.id
                          /\ pl.note = y.note
                          /\ pl.versuchs_nummer = y.versuchs_nummer
                    /\ \A pl \in AllePruefungsleistungen : pl.id # y.id]_vars

\* a note was corrected and the Studiengang saved: the object and its row differ
C14_Zeuge ==
    /\ letzte.op = "NoteKorrigieren"
    /\ letzte.fehler = ""
    /\ \E pl \in AllePruefungsleistungen : \E z \in db.pruefungsleistungen :
          z.id = pl.id /\ z.note # pl.note

\* the rows of semester that belong to the Studiengang with an id
SemesterZeilenVon(d, sg_id) == {z \in d.semester : z.studiengang_id = sg_id}

\* C15: a save replaces the semesters in full: after every successful
\* speichern(P) the stored semesters of P are exactly those of P's list in
\* memory (count, nummer, start and end), whatever was stored for P before, each
\* Semester object carries the id of its newly inserted row, and the stored
\* semesters of every other Studiengang are unchanged.
C15_SemesterErsetzt ==
    [][(letzte'.op \in {"erstes speichern", "speichern"} /\ letzte'.fehler = "")
          => LET P == studiengaenge'[letzte'.sg]
                 liste == P.semester_liste
             IN /\ Cardinality(SemesterZeilenVon(db', P.id)) = Len(liste)
                /\ \A k \in 1..Len(liste) :
                      /\ liste[k].id > db.seq.semester
                      /\ [id |-> liste[k].id, nummer |-> liste[k].nummer,
                          start_datum |-> Isoformat(liste[k].start_datum),
                          end_datum |-> Isoformat(liste[k].end_datum),
                          studiengang_id |-> P.id] \in db'.semester
                /\ \A sg_id \in Ids(db.studiengaenge) \ {P.id} :
                      SemesterZeilenVon(db', sg_id) = SemesterZeilenVon(db, sg_id)]_vars

\* a Studiengang whose semesters start on 2025-04-01 is saved again, rows of
\* semester have been deleted, and both Studiengaenge have stored semesters
C15_Zeuge ==
    /\ letzte.op = "speichern"
    /\ letzte.fehler = ""
    /\ Len(studiengaenge) = 2
    /\ \A i \in 1..2 : SemesterZeilenVon(db, studiengaenge[i].id) # {}
    /\ Cardinality(db.semester) < db.seq.semester
    /\ \E z \in SemesterZeilenVon(db, studiengaenge[letzte.sg].id) :
          z.nummer = 1 /\ z.start_datum = Isoformat(Datum(2025, 4, 1))

----------------------------------------------------------------------------
(* Direct calls of the DatenbankManager with ids that are not stored, or not
   stored any more. *)

VerwaistMaxSemId == 3
VerwaistMaxId == 2
VerwaistMaxModule == 3
VerwaistNoten == {50}

\* the delete methods of DatenbankManager and the table each works on
LoeschMethoden ==
    [loeschen_studiengang |-> "studiengaenge", loeschen_modul |-> "module",
     loeschen_pruefungsleistung |-> "pruefungsleistungen",
     loeschen_zeiteintrag |-> "zeiteintraege"]

\* db.loeschen_studiengang(id), db.loeschen_modul(id),
\* db.loeschen_pruefungsleistung(id), db.loeschen_zeiteintrag(id): a DELETE and a
\* commit; the objects in memory are the caller's and stay
ApiLoeschen(methode, id) ==
    /\ db' = CASE methode = "loeschen_studiengang" -> StudiengangRepoLoeschen(db, id)
               [] methode = "loeschen_modul" -> ModulRepoLoeschen(db, id)
               [] methode = "loeschen_pruefungsleistung" ->
                      LoeschenPruefungsleistung(db, id)
               [] methode = "loeschen_zeiteintrag" -> ZeiteintragRepoLoeschen(db, id)
    /\ letzte' = ApiEnde(methode, "", NONE, NONE, id)
    /\ UNCHANGED <<studiengaenge, aktueller, zeiteintraege>>

NextVerwaist ==
    \/ \E name \in Namen, regelstudienzeit \in ApiRegelstudienzeiten,
          zielschnitt \in Zielschnitte :
          ApiStudiengang(name, regelstudienzeit, zielschnitt)
              /\ Len(studiengaenge) < ApiMaxSg
    \/ \E i \in 1..ApiMaxSg, start \in GueltigeStartdaten : ApiGeneriereSemester(i, start)
    \/ \E i \in 1..ApiMaxSg, titel \in Titel, ects \in EctsWerte, status \in ApiStati,
          semester \in Plansemester :
          ApiModul(i, titel, ects, status, semester) /\ AnzahlModule < VerwaistMaxModule
    \/ \E i \in 1..ApiMaxSg, nr \in 1..VerwaistMaxModule, note \in VerwaistNoten :
          ApiNeuePruefungsleistung(i, nr, note)
    \/ \E i \in 1..ApiMaxSg : ApiSpeichern(i) /\ db'.seq.semester <= VerwaistMaxSemId
    \/ \E methode \in DOMAIN LoeschMethoden, id \in 1..VerwaistMaxId :
          ApiLoeschen(methode, id)

SpecVerwaist == Init /\ [][NextVerwaist]_vars

\* C16: every call of the persistence layer that refers to an id that is not
\* stored (a save of a Studiengang or Modul whose row is gone, a delete of a
\* Studiengang, Modul, Pruefungsleistung or Zeiteintrag with an unknown id)
\* raises an error to the caller and is never silently ignored.
C16_UnbekannteIdMeldetFehler ==
    [][/\ (/\ letzte'.op \in DOMAIN LoeschMethoden
           /\ letzte'.eingabe \notin Ids(db[LoeschMethoden[letzte'.op]]))
              => letzte'.fehler # ""
       /\ (/\ letzte'.op = "speichern"
           /\ LET sg == studiengaenge[letzte'.sg]
              IN \/ sg.id \notin Ids(db.studiengaenge)
                 \/ \E k \in 1..Len(sg.module) :
                       sg.module[k].id \notin Ids(db.module) \cup {NONE})
              => letzte'.fehler # ""]_vars

\* the Studiengang has its row in d, with the values of the object
StudiengangGespeichert(d, sg) ==
    [id |-> sg.id, name |-> sg.name, regelstudienzeit |-> sg.regelstudienzeit,
     zielschnitt |-> sg.zielschnitt] \in d.studiengaenge

\* the semester rows of the Studiengang in d are those of its semester_liste
SemesterGespeichert(d, sg) ==
    SemesterZeilenVon(d, sg.id) =
        {SemesterZeile(sg.semester_liste[n], sg.semester_liste[n].id, sg.id)
            : n \in 1..Len(sg.semester_liste)}

\* the Modul has its row in d, with the values of the object, and so has each
\* of its Pruefungsleistungen
ModulGespeichert(d, modul) ==
    /\ \E z \in d.module :
          /\ z.id = modul.id /\ z.titel = modul.titel /\ z.ects = modul.ects
          /\ z.status = modul.status
          /\ z.geplantes_semester = modul.geplantes_semester
    /\ \A n \in 1..Len(modul.pruefungsleistungen) :
          [id |-> modul.pruefungsleistungen[n].id,
           note |-> modul.pruefungsleistungen[n].note,
           versuchs_nummer |-> modul.pruefungsleistungen[n].versuchs_nummer,
           modul_id |-> modul.id] \in d.pruefungsleistungen

\* C21: DatenbankManager.speichern commits in steps: when the save of the
\* k-th Modul raises (and the save of the Studiengang itself did not), the row
\* of the Studiengang, its semester rows and the Module 1..k-1 with their
\* Pruefungsleistungen are stored, and the Module after k are not written: the
\* objects are as before and every row the call added or changed belongs to
\* the Studiengang, a Semester or one of the Module 1..k-1.
C21_SchrittweiseGespeichert ==
    [][(/\ letzte'.op \in {"erstes speichern", "speichern"}
        /\ letzte'.fehler # ""
        /\ StudiengangRepoSpeichern(db, studiengaenge[letzte'.sg]).fehler = "")
           => LET alt == studiengaenge[letzte'.sg]
                  neu == studiengaenge'[letzte'.sg]
              IN \E k \in 1..Len(alt.module) :
                    /\ StudiengangGespeichert(db', neu)
                    /\ SemesterGespeichert(db', neu)
                    /\ \A j \in 1..(k - 1) : ModulGespeichert(db', neu.module[j])
                    /\ \A j \in (k + 1)..Len(alt.module) :
                          neu.module[j] = alt.module[j]
                    /\ \A z \in db'.module \ db.module :
                          \E j \in 1..(k - 1) : z.id = neu.module[j].id
                    /\ \A z \in db'.pruefungsleistungen \ db.pruefungsleistungen :
                          \E j \in 1..(k - 1) : z.modul_id = neu.module[j].id]_vars

----------------------------------------------------------------------------
(* The menus of the Lerntermine and Lernsessions: plan, confirm, delete,
   capture, with a Modul that may be deleted, and the restart, which may also
   happen while _bestaetigen is between its two calls of the database. *)

ZeitMaxZeId == 3
ZeitMaxAnzahl == 3

\* the minutes typed in _bestaetigen: more than the day has left, none, fewer
\* than none
Tatsaechlich == {900, 0, -5}

GrenzenZeit ==
    /\ Schranken(1, 3, 1, 0, ZeitMaxZeId)
    /\ Len(zeiteintraege') <= ZeitMaxAnzahl
    /\ ~ImBestaetigen

NextZeit ==
    \/ \E name \in Namen, regelstudienzeit \in Regelstudienzeiten,
          start \in GueltigeStartdaten :
          SgAnlegen(name, regelstudienzeit, start) /\ GrenzenZeit
    \/ \E titel \in Titel, ects \in EctsWerte, semester \in Plansemester :
          ModHinzufuegen(titel, ects, semester) /\ GrenzenZeit
    \/ \E datum \in Tage, zeit \in Terminzeiten, dauer \in Dauern,
          beschreibung \in Beschreibungen, wahl \in 0..1 :
          TerminPlanen(datum, zeit, dauer, beschreibung, wahl) /\ GrenzenZeit
    \/ \E nr \in 1..1 : ModLoeschen(nr) /\ GrenzenZeit
    \/ \E nr \in 1..ZeitMaxZeId, tatsaechlich \in Tatsaechlich :
          TerminBestaetigenSpeichern(nr, tatsaechlich) /\ GrenzenZeit
    \/ TerminBestaetigenEntfernen
    \/ \E typ \in {TERMIN, SESSION}, nr \in 1..ZeitMaxZeId :
          EintragLoeschen(typ, nr) /\ GrenzenZeit
    \/ \E datum \in Tage, start \in Uhrzeiten, ende \in Uhrzeiten, wahl \in 0..1 :
          SessionErfassen(datum, start, ende, wahl) /\ GrenzenZeit
    \/ Neustart

SpecZeit == Init /\ [][NextZeit]_vars

----------------------------------------------------------------------------
(* The menus of the Lerntermine and Lernsessions as far as they save and delete
   Zeiteintraege: plan, edit, capture, delete, and the restart, while no
   Studiengang is chosen. *)

BearbeitenMaxZeId == 2

NeueTage == {Datum(2025, 2, 1)}
NeueZeiten == {1380}
NeueDauern == {0, 45}
NeueBeschreibungen == {"", "Wiederholen"}

GrenzenBearbeiten == Schranken(0, 0, 0, 0, BearbeitenMaxZeId)

NextBearbeiten ==
    \/ \E datum \in Tage, zeit \in Terminzeiten, dauer \in Dauern,
          beschreibung \in Beschreibungen, wahl \in {0} :
          TerminPlanen(datum, zeit, dauer, beschreibung, wahl) /\ GrenzenBearbeiten
    \/ \E nr \in 1..BearbeitenMaxZeId, datum \in NeueTage :
          TerminBearbeiten(nr, "1", datum)
    \/ \E nr \in 1..BearbeitenMaxZeId, zeit \in NeueZeiten :
          TerminBearbeiten(nr, "2", zeit)
    \/ \E nr \in 1..BearbeitenMaxZeId, dauer \in NeueDauern :
          TerminBearbeiten(nr, "3", dauer)
    \/ \E nr \in 1..BearbeitenMaxZeId, beschreibung \in NeueBeschreibungen :
          TerminBearbeiten(nr, "4", beschreibung)
    \/ \E typ \in {TERMIN, SESSION}, nr \in 1..BearbeitenMaxZeId :
          EintragLoeschen(typ, nr)
    \/ \E datum \in Tage, start \in Uhrzeiten, ende \in Uhrzeiten, wahl \in {0} :
          SessionErfassen(datum, start, ende, wahl) /\ GrenzenBearbeiten
    \/ Neustart

SpecBearbeiten == Init /\ [][NextBearbeiten]_vars

----------------------------------------------------------------------------
(* Properties of the Zeiteintraege, checked under SpecZeit and SpecBearbeiten. *)

\* the entries of a list
Eintraege(liste) == {liste[k] : k \in 1..Len(liste)}

\* the row with an id
ZeileMitId(d, id) == CHOOSE z \in d.zeiteintraege : z.id = id

\* C17: when a Lerntermin is confirmed, the new Lernsession (same datum,
\* start_zeit and modul_id, end_zeit = start_zeit + the minutes typed) is stored
\* before the Lerntermin is deleted, so in between at least one of the two is
\* stored; when both steps succeed the Lerntermin is neither in the list nor in
\* the database and exactly one new Lernsession for it is in both.
C17_ErstSpeichernDannLoeschen ==
    [][/\ letzte'.op = "TerminBestaetigen:gespeichert"
             => LET termin == zeiteintraege[letzte'.eingabe.termin]
                    session == Letztes(zeiteintraege')
                IN /\ Len(zeiteintraege') = Len(zeiteintraege) + 1
                   /\ termin \in Eintraege(zeiteintraege')
                   /\ session.typ = SESSION
                   /\ session.datum = termin.datum
                   /\ session.start_zeit = termin.start_zeit
                   /\ session.modul_id = termin.modul_id
                   /\ TotalSeconds(session.start_zeit, session.end_zeit)
                          = letzte'.eingabe.tatsaechlich * 60
                   /\ session.id \notin Ids(db.zeiteintraege)
                   /\ session.id \in Ids(db'.zeiteintraege)
                   /\ termin.id \in Ids(db.zeiteintraege)
                          => termin.id \in Ids(db'.zeiteintraege)
       /\ (letzte.op = "TerminBestaetigen:gespeichert"
           /\ letzte'.op = "TerminBestaetigen")
             => LET termin == zeiteintraege[letzte.eingabe.termin]
                    session == Letztes(zeiteintraege)
                IN /\ termin \notin Eintraege(zeiteintraege')
                   /\ termin.id \notin Ids(db'.zeiteintraege)
                   /\ Len(zeiteintraege') = Len(zeiteintraege) - 1
                   /\ Letztes(zeiteintraege') = session
                   /\ ZeileMitId(db', session.id) = ZeileMitId(db, session.id)
                   /\ Ids(db'.zeiteintraege) = Ids(db.zeiteintraege) \ {termin.id}
       /\ (letzte.op = "TerminBestaetigen:gespeichert"
           /\ letzte'.op = "Neustart")
             => \A id \in Ids(db.zeiteintraege) :
                   \E e \in Eintraege(zeiteintraege') : e.id = id]_vars

\* a Lerntermin with a Modul was confirmed with 900 minutes, which end on the
\* next day, and both steps are done
C17_Zeuge ==
    /\ letzte.op = "TerminBestaetigen"
    /\ letzte.fehler = ""
    /\ letzte.eingabe.tatsaechlich = 900
    /\ Letztes(zeiteintraege).typ = SESSION
    /\ Letztes(zeiteintraege).modul_id # NONE
    /\ Letztes(zeiteintraege).end_zeit.datum # Letztes(zeiteintraege).datum
    /\ Letztes(zeiteintraege).id \in Ids(db.zeiteintraege)

\* C18: no handler of the menus (capturing a Lernsession, confirming a
\* Lerntermin with any whole number of minutes) builds or stores a Lernsession
\* whose end_zeit is not after its start_zeit.
C18_EndeNachStart ==
    /\ \A e \in Eintraege(zeiteintraege) :
          e.typ = SESSION => TotalSeconds(e.start_zeit, e.end_zeit) > 0
    /\ \A z \in db.zeiteintraege :
          z.typ = SESSION
              => TotalSeconds(FromIsoformatZeit(z.start_zeit),
                              FromIsoformatZeit(z.end_zeit)) > 0

\* a stored row has the columns of its typ and no others
ZeileNachTyp(z) ==
    IF z.typ = TERMIN
    THEN /\ z.geplante_dauer # NONE
         /\ z.beschreibung # KEIN_TEXT
         /\ z.end_zeit = KEINE_ZEIT
         /\ z.tatsaechliche_dauer = NONE
    ELSE /\ z.typ = SESSION
         /\ z.end_zeit # KEINE_ZEIT
         /\ z.tatsaechliche_dauer # NONE
         /\ z.geplante_dauer = NONE
         /\ z.beschreibung = KEIN_TEXT

----------------------------------------------------------------------------
(* Modul.berechne_aufwand on Module with and without id and on lists of
   Lerntermine and Lernsessions with and without modul_id. *)

AufwandMaxModule == 2
AufwandMaxAnzahl == 3

\* the entries handed to berechne_aufwand: a Lerntermin of 30 minutes and a
\* Lernsession of 45 minutes, each without a Modul and for the Modul with id 1
AufwandEintraege ==
    LET start == Zeitpunkt(Datum(2025, 1, 15), 600)
    IN {Lerntermin(Datum(2025, 1, 15), start, 30, "", modul_id)
           : modul_id \in {NONE, 1}}
       \cup {Lernsession(Datum(2025, 1, 15), start, ZeitPlusMinuten(start, 45), modul_id)
                : modul_id \in {NONE, 1}}

\* Modul.berechne_aufwand(sessions): the dauer() of every entry whose modul_id
\* equals the id of the Modul
BerechneAufwand(modul, sessions) ==
    Summe([k \in 1..Len(sessions) |->
              IF sessions[k].modul_id = modul.id THEN Dauer(sessions[k]) ELSE 0],
          Len(sessions))

\* zeiteintraege.append(eintrag)
ApiEintrag(eintrag) ==
    /\ zeiteintraege' = Append(zeiteintraege, eintrag)
    /\ letzte' = ApiEnde("Zeiteintrag", "", NONE, NONE, NONE)
    /\ UNCHANGED <<studiengaenge, aktueller, db>>

\* studiengaenge[i].module[nr].berechne_aufwand(zeiteintraege)
ApiBerechneAufwand(i, nr) ==
    /\ i \in 1..Len(studiengaenge)
    /\ nr \in 1..Len(studiengaenge[i].module)
    /\ letzte' = ApiAntwort("berechne_aufwand", i, nr,
                            BerechneAufwand(studiengaenge[i].module[nr], zeiteintraege))
    /\ UNCHANGED <<studiengaenge, aktueller, zeiteintraege, db>>

NextAufwand ==
    \/ \E name \in Namen, regelstudienzeit \in Regelstudienzeiten,
          zielschnitt \in Zielschnitte :
          ApiStudiengang(name, regelstudienzeit, zielschnitt)
              /\ Len(studiengaenge) < ApiMaxSg
    \/ \E i \in 1..ApiMaxSg, titel \in Titel, ects \in EctsWerte, status \in ApiStati,
          semester \in Plansemester :
          ApiModul(i, titel, ects, status, semester) /\ AnzahlModule < AufwandMaxModule
    \/ \E i \in 1..ApiMaxSg : ApiSpeichern(i)
    \/ \E eintrag \in AufwandEintraege :
          ApiEintrag(eintrag) /\ Len(zeiteintraege) < AufwandMaxAnzahl
    \/ \E i \in 1..ApiMaxSg, nr \in 1..AufwandMaxModule : ApiBerechneAufwand(i, nr)

SpecAufwand == Init /\ [][NextAufwand]_vars

\* the sum of dauer() over the Lernsessions of the list that refer to the Modul
AufwandDerSessions(modul, sessions) ==
    Summe([k \in 1..Len(sessions) |->
              IF /\ sessions[k].typ = SESSION
                 /\ sessions[k].modul_id # NONE
                 /\ sessions[k].modul_id = modul.id
              THEN Dauer(sessions[k]) ELSE 0],
          Len(sessions))

\* C22: for every Modul, stored or not, and every list of Zeiteintraege,
\* berechne_aufwand returns the sum of dauer() over exactly the Lernsessions of
\* the list whose modul_id is the id of the Modul; entries without modul_id and
\* Lerntermine add nothing, and the Modul and the entries stay as they are.
C22_AufwandNurSessionsDesModuls ==
    [][letzte'.op = "berechne_aufwand"
          => /\ letzte'.ergebnis =
                    AufwandDerSessions(studiengaenge[letzte'.sg].module[letzte'.eingabe],
                                       zeiteintraege)
             /\ UNCHANGED <<studiengaenge, zeiteintraege>>]_vars

----------------------------------------------------------------------------
(* Studiengang.ist_abgeschlossen while grades are entered, corrected and
   deleted in the menus. *)

AbschlussMaxSemId == 7
AbschlussMaxModId == 2
AbschlussMaxPlId == 3

AbschlussNoten == {40, 50}

\* faulty variant of ist_abgeschlossen: the test for an empty module list is
\* left out, so the loop over no Modul ends with True
IstAbgeschlossenOhneLeerTest(studiengang) ==
    \A k \in 1..Len(studiengang.module) : ModulIstBestanden(studiengang.module[k])

\* Studiengang.ist_abgeschlossen()
IstAbgeschlossen(studiengang) ==
    IF studiengang.module = <<>> THEN FALSE
    ELSE \A k \in 1..Len(studiengang.module) : ModulIstBestanden(studiengang.module[k])

\* the Studiengang in use: ist_abgeschlossen()
ApiIstAbgeschlossen ==
    /\ aktueller # NONE
    /\ letzte' = [op |-> "ist_abgeschlossen", fehler |-> "", modul |-> NONE,
                  eingabe |-> NONE, ergebnis |-> IstAbgeschlossen(AktuellerSg)]
    /\ UNCHANGED <<studiengaenge, aktueller, zeiteintraege, db>>

GrenzenAbschluss ==
    Schranken(1, AbschlussMaxSemId, AbschlussMaxModId, AbschlussMaxPlId, 0)

NextAbschluss ==
    \/ \E name \in Namen, regelstudienzeit \in Regelstudienzeiten,
          start \in GueltigeStartdaten :
          SgAnlegen(name, regelstudienzeit, start) /\ GrenzenAbschluss
    \/ \E titel \in Titel, ects \in EctsWerte, semester \in Plansemester :
          ModHinzufuegen(titel, ects, semester) /\ GrenzenAbschluss
    \/ \E nr \in 1..AbschlussMaxModId, note \in AbschlussNoten :
          NoteEintragen(nr, note) /\ GrenzenAbschluss
    \/ \E nr \in 1..AbschlussMaxModId, v_nr \in 1..MaxVersuche,
          neue_note \in AbschlussNoten :
          NoteKorrigieren(nr, v_nr, neue_note) /\ GrenzenAbschluss
    \/ \E nr \in 1..AbschlussMaxModId, v_nr \in 1..MaxVersuche :
          NoteLoeschen(nr, v_nr) /\ GrenzenAbschluss
    \/ ApiIstAbgeschlossen

SpecAbschluss == Init /\ [][NextAbschluss]_vars

\* every Modul of the Studiengang has the status BESTANDEN, and there is one
AlleBestanden(studiengang) ==
    /\ studiengang.module # <<>>
    /\ \A k \in 1..Len(studiengang.module) : studiengang.module[k].status = BESTANDEN

\* the handler that just ended took a passing last Pruefungsleistung from the
\* Modul it worked on: _note_korrigieren gave it a failing note, _note_loeschen
\* removed it, _eintragen put a failing one behind it
LetzteBestandeneGenommen ==
    /\ letzte'.op \in {"NoteKorrigieren", "NoteLoeschen", "NoteEintragen"}
    /\ letzte'.fehler = ""
    /\ LET alt == AktuellerSg.module[letzte'.modul].pruefungsleistungen
           neu == studiengaenge'[aktueller].module[letzte'.modul].pruefungsleistungen
       IN /\ alt # <<>>
          /\ PlIstBestanden(Letztes(alt))
          /\ CASE letzte'.op = "NoteKorrigieren" ->
                      /\ Len(neu) = Len(alt)
                      /\ ~PlIstBestanden(Letztes(neu))
               [] letzte'.op = "NoteLoeschen" -> neu = SubSeq(alt, 1, Len(alt) - 1)
               [] letzte'.op = "NoteEintragen" -> ~PlIstBestanden(Letztes(neu))

\* the Pruefungsleistungen the handler left in the Modul it worked on
Verbleibende == studiengaenge'[aktueller].module[letzte'.modul].pruefungsleistungen

\* the statement of C23 as it stands: whenever a passing last
\* Pruefungsleistung is corrected to a failing note, removed, or followed by a
\* failing one, ist_abgeschlossen() is False afterwards
C23_WirdImmerFalsch ==
    [][LetzteBestandeneGenommen
          => ~IstAbgeschlossen(studiengaenge'[aktueller])]_vars

\* C23: ist_abgeschlossen() is False for a Studiengang without Module and
\* otherwise True exactly when every Modul has the status BESTANDEN; it is
\* False after a passing last Pruefungsleistung of a Modul was corrected to a
\* failing note or followed by a failing one, and after it was removed unless
\* the Pruefungsleistung before it, now the last, is a passing one too.
C23_Abgeschlossen ==
    [][/\ letzte'.op = "ist_abgeschlossen"
             => letzte'.ergebnis = AlleBestanden(studiengaenge'[aktueller])
       /\ aktueller' # NONE
             => IstAbgeschlossen(studiengaenge'[aktueller'])
                    = AlleBestanden(studiengaenge'[aktueller'])
       /\ (/\ LetzteBestandeneGenommen
           /\ \/ Verbleibende = <<>>
              \/ ~PlIstBestanden(Letztes(Verbleibende)))
             => ~IstAbgeschlossen(studiengaenge'[aktueller])]_vars

\* ist_abgeschlossen() was True, then the passing last Pruefungsleistung of a
\* Modul was deleted, and the Studiengang is not abgeschlossen any more
C23_Zeuge ==
    /\ letzte.op = "NoteLoeschen"
    /\ letzte.fehler = ""
    /\ aktueller # NONE
    /\ Len(AktuellerSg.module) = 2
    /\ AktuellerSg.module[1].status = BESTANDEN
    /\ AktuellerSg.module[2].status = OFFEN
    /\ Len(AktuellerSg.module[2].pruefungsleistungen) = 1
    /\ AktuellerSg.module[2].pruefungsleistungen[1].versuchs_nummer = 1
    /\ db.seq.pruefungsleistungen = 3
    /\ ~IstAbgeschlossen(AktuellerSg)

\* C24: after any sequence of neue_pruefungsleistung and removals of
\* Pruefungsleistungen, the versuchs_nummer of every Pruefungsleistung of a
\* Modul is its position in the list, counted from 1, so the numbers of one
\* Modul are pairwise distinct and increase along the list.
C24_VersuchsNummerIstPosition ==
    \A i \in 1..Len(studiengaenge) : \A k \in 1..Len(studiengaenge[i].module) :
        LET pls == studiengaenge[i].module[k].pruefungsleistungen
        IN /\ \A n \in 1..Len(pls) : pls[n].versuchs_nummer = n
           /\ \A m, n \in 1..Len(pls) :
                 m < n => pls[m].versuchs_nummer < pls[n].versuchs_nummer

\* the calendar days of the semester contain the day of jetzt
TagImSemester(sem, jetzt) ==
    /\ TagNummer(sem.start_datum) <= TagNummer(jetzt.datum)
    /\ TagNummer(jetzt.datum) <= TagNummer(sem.end_datum)

\* C25: the semesters built by generiere_semester cover the time of study
\* without gaps and overlaps: every now from the start of the first to the end
\* of the last semester lies in the range of exactly one semester, and
\* get_aktuelles_semester returns the nummer of the semester whose calendar days
\* contain now.
C25_OhneLuecken ==
    (/\ letzte.op = "get_aktuelles_semester"
     /\ ApiLetzterSg.semester_liste # <<>>
     /\ MinutenNummer(Zeitpunkt(ApiLetzterSg.semester_liste[1].start_datum, 0))
            <= MinutenNummer(letzte.eingabe)
     /\ MinutenNummer(letzte.eingabe)
            <= MinutenNummer(Zeitpunkt(Letztes(ApiLetzterSg.semester_liste).end_datum, 0)))
        => LET liste == ApiLetzterSg.semester_liste
               jetzt == letzte.eingabe
           IN /\ Cardinality({k \in 1..Len(liste) : ImSemester(liste[k], jetzt)}) = 1
              /\ \E k \in 1..Len(liste) :
                    /\ TagImSemester(liste[k], jetzt)
                    /\ letzte.ergebnis = liste[k].nummer

\* C26: after the menus deleted a Modul or a Studiengang, no Zeiteintrag in
\* memory refers to a Modul that is not stored any more, so a later
\* speichern_zeiteintrag of such an entry (here: of the Lernsession that
\* _bestaetigen builds from a Lerntermin) does not fail.
C26_KeinBezugAufGeloeschtesModul ==
    /\ \A k \in 1..Len(zeiteintraege) :
          zeiteintraege[k].modul_id \in Ids(db.module) \cup {NONE}
    /\ letzte.op = "TerminBestaetigen" => letzte.fehler = ""

\* C27: when speichern_zeiteintrag of the new Lernsession fails in
\* _bestaetigen, the list of Zeiteintraege is as it was before (the Lerntermin
\* in it, no unsaved Lernsession added), so the list and the database hold the
\* same entries after every attempt.
C27_FehlschlagLaesstListe ==
    [][(letzte'.op = "TerminBestaetigen" /\ letzte'.fehler # "")
          => /\ zeiteintraege' = zeiteintraege
             /\ \A k \in 1..Len(zeiteintraege') :
                   zeiteintraege'[k].id \in Ids(db'.zeiteintraege)]_vars

\* C28: db.speichern(studiengang) called a second time directly after a save
\* that succeeded, with nothing changed in between, stores no further row: the
\* rows of studiengaenge, module and pruefungsleistungen are the same, with the
\* same ids and values, and the ids of the Studiengang object, its Module and
\* their Pruefungsleistungen stay as they are.
C28_ZweimalSpeichern ==
    [][(/\ letzte.op \in {"erstes speichern", "speichern"}
        /\ letzte.fehler = ""
        /\ letzte'.op = "speichern"
        /\ letzte'.sg = letzte.sg)
          => /\ letzte'.fehler = ""
             /\ db'.studiengaenge = db.studiengaenge
             /\ db'.module = db.module
             /\ db'.pruefungsleistungen = db.pruefungsleistungen
             /\ db'.seq.module = db.seq.module
             /\ db'.seq.pruefungsleistungen = db.seq.pruefungsleistungen
             /\ studiengaenge'[letzte'.sg].id = studiengaenge[letzte'.sg].id
             /\ studiengaenge'[letzte'.sg].module = studiengaenge[letzte'.sg].module]_vars

\* a Studiengang with one Semester, a Modul and two Pruefungsleistungen was
\* saved a second time: the Semester has its second id, the Modul and the
\* Pruefungsleistungen have the only ids ever given
C28_Zeuge ==
    /\ letzte.op = "speichern"
    /\ letzte.fehler = ""
    /\ Len(ApiLetzterSg.semester_liste) = 1
    /\ ApiLetzterSg.semester_liste[1].id = 2
    /\ Len(ApiLetzterSg.module) = 1
    /\ ApiLetzterSg.module[1].id = 1
    /\ Len(ApiLetzterSg.module[1].pruefungsleistungen) = 2
    /\ \A n \in 1..2 : ApiLetzterSg.module[1].pruefungsleistungen[n].id = n
    /\ Cardinality(db.module) = 1
    /\ Cardinality(db.pruefungsleistungen) = 2

----------------------------------------------------------------------------
(* Two Studiengang objects whose Module and Pruefungsleistungen are added,
   taken out of the lists in memory, moved from one list to the other, saved,
   and deleted in the database. *)

RahmenMaxModId == 1
RahmenMaxPlId == 1
RahmenMaxObjekte == 2

RahmenNoten == {40}

\* studiengaenge[i].module.pop(nr - 1): the Modul leaves the list in memory, the
\* database is not called
ApiEntferneModul(i, nr) ==
    /\ i \in 1..Len(studiengaenge)
    /\ nr \in 1..Len(studiengaenge[i].module)
    /\ studiengaenge' = [studiengaenge EXCEPT ![i].module = OhneIndex(@, nr)]
    /\ letzte' = ApiEnde("module.pop", "", i, nr, NONE)
    /\ UNCHANGED <<aktueller, zeiteintraege, db>>

\* studiengaenge[i].module[nr].pruefungsleistungen.pop(): the last
\* Pruefungsleistung leaves the list in memory, the database is not called
ApiEntfernePruefungsleistung(i, nr) ==
    /\ i \in 1..Len(studiengaenge)
    /\ nr \in 1..Len(studiengaenge[i].module)
    /\ studiengaenge[i].module[nr].pruefungsleistungen # <<>>
    /\ studiengaenge' = [studiengaenge EXCEPT
           ![i].module[nr].pruefungsleistungen = SubSeq(@, 1, Len(@) - 1)]
    /\ letzte' = ApiEnde("pruefungsleistungen.pop", "", i, nr, NONE)
    /\ UNCHANGED <<aktueller, zeiteintraege, db>>

\* two Studiengang objects have been constructed, nothing is stored
InitRahmen ==
    /\ studiengaenge = <<Studiengang("Informatik", 1, 15), Studiengang("Mathematik", 1, 20)>>
    /\ aktueller = NONE
    /\ zeiteintraege = <<>>
    /\ db = LeereDb
    /\ letzte = ApiEnde("Studiengang", "", 2, NONE, NONE)

\* modul = studiengaenge[i].module.pop(nr - 1); studiengaenge[j].module.append(modul):
\* the Modul object, with its id, changes the list in memory
ApiVerschiebeModul(i, nr, j) ==
    /\ i \in 1..Len(studiengaenge)
    /\ j \in 1..Len(studiengaenge) \ {i}
    /\ nr \in 1..Len(studiengaenge[i].module)
    /\ studiengaenge' = [studiengaenge EXCEPT
           ![i].module = OhneIndex(@, nr),
           ![j].module = Append(@, studiengaenge[i].module[nr])]
    /\ letzte' = ApiEnde("module.append", "", j, Len(studiengaenge[j].module) + 1, NONE)
    /\ UNCHANGED <<aktueller, zeiteintraege, db>>

GrenzenRahmen ==
    /\ Schranken(2, 0, RahmenMaxModId, RahmenMaxPlId, 0)
    /\ AnzahlModule' + AnzahlPruefungsleistungen' <= RahmenMaxObjekte

NextRahmen ==
    \/ \E i \in 1..2, titel \in Titel, ects \in EctsWerte, status \in ApiStati,
          semester \in Plansemester :
          ApiModul(i, titel, ects, status, semester) /\ GrenzenRahmen
    \/ \E i \in 1..2, nr \in 1..RahmenMaxModId, note \in RahmenNoten :
          ApiNeuePruefungsleistung(i, nr, note) /\ GrenzenRahmen
    \/ \E i \in 1..2, nr \in 1..RahmenMaxModId : ApiEntferneModul(i, nr)
    \/ \E i \in 1..2, nr \in 1..RahmenMaxModId :
          ApiEntfernePruefungsleistung(i, nr)
    \/ \E i \in 1..2, nr \in 1..RahmenMaxModId, j \in 1..2 : ApiVerschiebeModul(i, nr, j)
    \/ \E i \in 1..2 : ApiSpeichern(i) /\ GrenzenRahmen
    \/ \E methode \in {"loeschen_studiengang", "loeschen_modul",
                       "loeschen_pruefungsleistung"},
          id \in 1..RahmenMaxModId : ApiLoeschen(methode, id)

SpecRahmen == InitRahmen /\ [][NextRahmen]_vars

\* C29: DatenbankManager.speichern never deletes a stored Modul or
\* Pruefungsleistung and never changes the Studiengang a stored Modul belongs
\* to: what was only taken out of the lists in memory is still stored after the
\* save, and the rows of other Studiengaenge (their own row, their Module and
\* the Pruefungsleistungen of these) are unchanged; stored Module and
\* Pruefungsleistungen disappear only through loeschen_studiengang,
\* loeschen_modul and loeschen_pruefungsleistung.
C29_SpeichernLoeschtNichts ==
    [][/\ letzte'.op \in {"erstes speichern", "speichern"}
             => LET sg_id == studiengaenge'[letzte'.sg].id
                IN /\ \A z \in db.module : \E y \in db'.module :
                         y.id = z.id /\ y.studiengang_id = z.studiengang_id
                   /\ db.pruefungsleistungen \subseteq db'.pruefungsleistungen
                   /\ \A z \in db.studiengaenge : z.id # sg_id => z \in db'.studiengaenge
                   /\ \A z \in db.module : z.studiengang_id # sg_id => z \in db'.module
                   /\ \A z \in db'.pruefungsleistungen \ db.pruefungsleistungen :
                         \E y \in db'.module :
                            y.id = z.modul_id /\ y.studiengang_id = sg_id
       /\ (\/ ~(Ids(db.module) \subseteq Ids(db'.module))
           \/ ~(Ids(db.pruefungsleistungen) \subseteq Ids(db'.pruefungsleistungen)))
             => letzte'.op \in {"loeschen_studiengang", "loeschen_modul",
                                "loeschen_pruefungsleistung"}]_vars

\* C30: a Modul has the status NICHT_BESTANDEN only when it holds exactly three
\* Pruefungsleistungen and the last one is failing; so neue_pruefungsleistung
\* never succeeds on such a Modul and the status is left only by a correction
\* or a removal, while a Modul that is BESTANDEN with fewer than three
\* Pruefungsleistungen accepts a further one and is not BESTANDEN any more
\* when that one is failing.
C30_NichtBestandenNurNachDreiVersuchen ==
    [][/\ \A i \in 1..Len(studiengaenge') : \A k \in 1..Len(studiengaenge'[i].module) :
             LET modul == studiengaenge'[i].module[k]
             IN modul.status = NICHT_BESTANDEN
                    => /\ Len(modul.pruefungsleistungen) = MaxVersuche
                       /\ ~PlIstBestanden(Letztes(modul.pruefungsleistungen))
       /\ (/\ letzte'.op = "NoteEintragen"
           /\ AktuellerSg.module[letzte'.modul].status = NICHT_BESTANDEN)
             => /\ letzte'.fehler # ""
                /\ studiengaenge' = studiengaenge
       /\ (/\ aktueller # NONE
           /\ aktueller' = aktueller
           /\ letzte'.op # "Neustart"
           /\ \E k \in 1..Len(AktuellerSg.module) :
                 /\ k <= Len(studiengaenge'[aktueller].module)
                 /\ AktuellerSg.module[k].status = NICHT_BESTANDEN
                 /\ studiengaenge'[aktueller].module[k].status # NICHT_BESTANDEN)
             => letzte'.op \in {"NoteKorrigieren", "NoteLoeschen"}
       /\ (/\ letzte'.op = "NoteEintragen"
           /\ AktuellerSg.module[letzte'.modul].status = BESTANDEN
           /\ Len(AktuellerSg.module[letzte'.modul].pruefungsleistungen) < MaxVersuche
           /\ NoteGueltig(letzte'.eingabe))
             => /\ letzte'.fehler = ""
                /\ Len(studiengaenge'[aktueller].module[letzte'.modul].pruefungsleistungen)
                       = Len(AktuellerSg.module[letzte'.modul].pruefungsleistungen) + 1
                /\ ~PlIstBestanden([note |-> letzte'.eingabe])
                       => studiengaenge'[aktueller].module[letzte'.modul].status
                              # BESTANDEN]_vars

====
